---------------------------- MODULE Spec2Model ----------------------------
(***************************************************************************)
(* Generation pipeline of dxp-component-builder: the orchestrator          *)
(* (backend/app/agents/orchestrator.py), its Redis job store               *)
(* (backend/app/utils/queue.py) and the retry decorator                    *)
(* (backend/app/utils/retry.py).                                           *)
(*                                                                         *)
(* Every coroutine is modelled by its program counter: a pc names the      *)
(* await the coroutine is suspended at, and one action resumes it with     *)
(* the outcome of that await (the store call returned or raised, the agent *)
(* returned or raised) and runs the synchronous code up to the next await. *)
(* A store call that raises leaves the store as it was.                    *)
(***************************************************************************)
EXTENDS Integers, Sequences, FiniteSets, TLC

\* Number of job ids (uuid4 values) the model submits.
MaxJobs == 2

JobIds == 1..MaxJobs

VARIABLES
    spc,          \* per job: position of generate_component (the submitter)
    pc,           \* per job: position of the background _process_request task
    req,          \* per job: the request_data fields the pipeline branches on
    statusStore,  \* Redis: status key -> status record
    resultStore,  \* Redis: result key -> result record
    err,          \* per job: the exception caught by _process_request
    writes,       \* history: per job, the status records the store accepted
    calls,        \* history: per job, the agents invoked, in order
    lookup,       \* outcome of the last get_status request
    rpc,          \* retry_async.wrapper: position
    rcfg,         \* retry_async: max_attempts, delay, backoff
    attempt,      \* retry_async.wrapper: attempt
    current_delay,\* retry_async.wrapper: current_delay
    rtrace,       \* history: calls of the wrapped function and sleeps
    rout,         \* what the wrapper returned or raised, and of which attempt
    rerr,         \* the exception the last failed attempt raised
    cenabled,     \* CacheManager.enabled
    cstore,       \* Redis: cache key -> stored JSON text
    cexpired,     \* history: the cache keys whose entry has expired
    xpc,          \* per stage execution: position of process
    xkey,         \* per stage execution: cache_key
    xres,         \* per stage execution: what process returned or raised
    xtrace,       \* history: per stage execution, its awaits and their outcomes
    extCalls,     \* history: per cache key, the external agent calls made
    xfields,      \* per stage execution: the fields of input_data
    xfrom,        \* history: per execution, the fields its result was computed from
    cfrom,        \* history: per cache key, the fields its entry was computed from
    vpc,          \* ValidatorAgent.process: position
    vfiles,       \* process: component_files
    vauto,        \* process: the result of _automated_validation
    vllm,         \* process: the result of _llm_validation
    vreport,      \* what process returned
    verr,         \* the exception that left process
    gpc,          \* ComponentGenerator.process: position
    gin,          \* process: requirements and options of input_data
    graw,         \* process: the parsed generation output
    gout,         \* what process returned
    mpc,          \* generate_aem_component: position
    tpc,          \* per task of asyncio.gather: ready, or what it ended with
    strace,       \* history: the starts and ends of the agents' calls
    sres,         \* what generate_aem_component returned or raised
    ppc,          \* generate_component_sync: position
    polls,        \* generate_component_sync: polls made
    pobs,         \* history: per poll, the stored status and the result read
    panswer,      \* what generate_component_sync answered
    rlcfg,        \* RateLimitMiddleware: calls and period
    now,          \* the clock time.time() reads
    clients,      \* RateLimitMiddleware.clients: per address, its timestamps
    passed,       \* history: per address, the times of the requests passed on
    lastRejected  \* history: per address, the time of its last rejection

jobVars == <<spc, pc, req, statusStore, resultStore, err, writes, calls>>
retryVars == <<rpc, rcfg, attempt, current_delay, rtrace, rout, rerr>>
cacheVars == <<cenabled, cstore, cexpired, xpc, xkey, xres, xtrace, extCalls,
              xfields, xfrom, cfrom>>
valVars == <<vpc, vfiles, vauto, vllm, vreport, verr>>
genVars == <<gpc, gin, graw, gout>>
svcVars == <<mpc, tpc, strace, sres>>
syncVars == <<ppc, polls, pobs, panswer>>
rlVars == <<rlcfg, now, clients, passed, lastRejected>>
extVars == <<genVars, svcVars, syncVars, rlVars>>
nonJobVars == <<lookup, rpc, rcfg, attempt, current_delay, rtrace, rout, rerr,
                cacheVars, valVars, extVars>>
coreVars == <<jobVars, lookup, retryVars, cacheVars, valVars>>
vars == <<spc, pc, req, statusStore, resultStore, err, writes, calls,
          lookup, rpc, rcfg, attempt, current_delay, rtrace, rout, rerr,
          cenabled, cstore, cexpired, xpc, xkey, xres, xtrace, extCalls,
          xfields, xfrom, cfrom,
          vpc, vfiles, vauto, vllm, vreport, verr,
          gpc, gin, graw, gout, mpc, tpc, strace, sres,
          ppc, polls, pobs, panswer,
          rlcfg, now, clients, passed, lastRejected>>

----------------------------------------------------------------------------
(* Job store: backend/app/utils/queue.py *)

NoRec == [status |-> "none", progress |-> 0, current_step |-> ""]
NoResult == [status |-> "none", validation |-> "none"]
NoReq == [image_url |-> "unread", validate |-> "unread"]

\* key = f"{self.status_prefix}{request_id}"
StatusKeyShared(id) == 1
StatusKey(id) == id

\* key = f"{self.result_prefix}{request_id}"
ResultKey(id) == id

\* redis setex: the value is stored and the call returns, or the call raises
\* and nothing is stored.
setexApplied(store, key, value, ok) == [store EXCEPT ![key] = value]
setex(store, key, value, ok) ==
    IF ok THEN [store EXCEPT ![key] = value] ELSE store

\* enqueue's initial status
QueuedRecordBad ==
    [status |-> "processing", progress |-> 0, current_step |-> "Waiting in queue"]
QueuedRecord ==
    [status |-> "queued", progress |-> 0, current_step |-> "Waiting in queue"]

----------------------------------------------------------------------------
(* Orchestrator: backend/app/agents/orchestrator.py *)

WritePcs == {"w10", "w30", "w50", "w80"}
AgentPcs == {"req", "img", "gen", "val"}

\* the record of each _update_status call of the try block
StageRecord(w) ==
    CASE w = "w10" ->
           [status |-> "processing", progress |-> 10,
            current_step |-> "Analyzing requirements"]
      [] w = "w30" ->
           [status |-> "processing", progress |-> 30,
            current_step |-> "Analyzing image"]
      [] w = "w50" ->
           [status |-> "processing", progress |-> 50,
            current_step |-> "Generating component"]
      [] w = "w80" ->
           [status |-> "processing", progress |-> 80,
            current_step |-> "Validating component"]

CompletedRecord ==
    [status |-> "completed", progress |-> 100,
     current_step |-> "Generation complete"]

\* _update_status(request_id, "failed", 0, str(e))
FailedRecordGeneric(e) ==
    [status |-> "failed", progress |-> 0, current_step |-> "Generation failed"]
FailedRecord(e) ==
    [status |-> "failed", progress |-> 0, current_step |-> e]

\* The result dict of _process_request: its status and its validation entry.
ResultRecord(r) ==
    [status |-> "completed",
     validation |-> IF r.validate = "true" THEN "report" ELSE "null"]

\* Where _process_request goes when an _update_status of the try block has
\* returned: the agent of the announced stage, or, when the stage is skipped,
\* the next await ("build" stands for the synchronous result preparation).
AfterWriteRunningAll(w, r) ==
    CASE w = "w10" -> "req"
      [] w = "w30" -> "img"
      [] w = "w50" -> "gen"
      [] w = "w80" -> "val"
AfterWrite(w, r) ==
    CASE w = "w10" -> "req"
      [] w = "w30" -> IF r.image_url = "present" THEN "img" ELSE "w50"
      [] w = "w50" -> "gen"
      [] w = "w80" -> IF r.validate = "true" THEN "val" ELSE "build"

\* request_data is an argument that never changes; the model fixes a field
\* of it where _process_request first reads it: image_url after the write of
\* 30 (line 85), options.validate after the write of 80 (line 103).
ReadRequest(r, w) ==
    CASE w = "w30" -> {[r EXCEPT !.image_url = v] : v \in {"present", "absent"}}
      [] w = "w80" -> {[r EXCEPT !.validate = v] : v \in {"true", "false"}}
      [] OTHER -> {r}

\* Where _process_request goes when an agent's process() has returned.
AfterAgentSkipping(a) ==
    CASE a = "req" -> "w50"
      [] a = "img" -> "w50"
      [] a = "gen" -> "w80"
      [] a = "val" -> "build"
AfterAgent(a) ==
    CASE a = "req" -> "w30"
      [] a = "img" -> "w50"
      [] a = "gen" -> "w80"
      [] a = "val" -> "build"

\* The exceptions an agent's process() raises: the call failed after its
\* retries, or parse_json_response rejected the text.
AgentErrors == {"call_error", "parse_error"}

\* Enter position p of _process_request for job j (an await is issued there).
\* "build" is the result preparation (lines 108-130), which returns the result
\* (then save_result is awaited) or raises (ComponentFiles / ValidationResult).
GoToWithoutSave(j, p, buildOk) ==
    IF p = "build"
    THEN IF buildOk
         THEN /\ pc' = [pc EXCEPT ![j] = "w100"]
              /\ UNCHANGED <<err, calls>>
         ELSE /\ pc' = [pc EXCEPT ![j] = "wfail"]
              /\ err' = [err EXCEPT ![j] = "result_error"]
              /\ UNCHANGED calls
    ELSE /\ pc' = [pc EXCEPT ![j] = p]
         /\ calls' = [calls EXCEPT ![j] =
                        IF p \in AgentPcs THEN Append(@, p) ELSE @]
         /\ UNCHANGED err
GoTo(j, p, buildOk) ==
    IF p = "build"
    THEN IF buildOk
         THEN /\ pc' = [pc EXCEPT ![j] = "save"]
              /\ UNCHANGED <<err, calls>>
         ELSE /\ pc' = [pc EXCEPT ![j] = "wfail"]
              /\ err' = [err EXCEPT ![j] = "result_error"]
              /\ UNCHANGED calls
    ELSE /\ pc' = [pc EXCEPT ![j] = p]
         /\ calls' = [calls EXCEPT ![j] =
                        IF p \in AgentPcs THEN Append(@, p) ELSE @]
         /\ UNCHANGED err

\* except Exception as e: the handler awaits _update_status(.., "failed", ..)
Catch(j, e) ==
    /\ pc' = [pc EXCEPT ![j] = "wfail"]
    /\ err' = [err EXCEPT ![j] = e]
    /\ UNCHANGED calls

\* generate_component up to the first await: enqueue awaits update_status.
GenerateComponent(j) ==
    /\ spc[j] = "idle"
    /\ spc' = [spc EXCEPT ![j] = "enq_status"]
    /\ UNCHANGED <<pc, req, statusStore, resultStore, err, writes, calls>>
    /\ UNCHANGED nonJobVars

\* enqueue: update_status has returned (lpush is awaited next) or raised.
EnqueueStatusDone(j) ==
    /\ spc[j] = "enq_status"
    /\ \E ok \in BOOLEAN :
         /\ statusStore' = setex(statusStore, StatusKey(j), QueuedRecord, ok)
         /\ writes' = [writes EXCEPT ![j] =
                         IF ok THEN Append(@, QueuedRecord) ELSE @]
         /\ spc' = [spc EXCEPT ![j] = IF ok THEN "enq_push" ELSE "rejected"]
    /\ UNCHANGED <<pc, req, resultStore, err, calls>>
    /\ UNCHANGED nonJobVars

\* enqueue: lpush has returned, generate_component creates the task and
\* returns the id; or lpush raised and generate_component raises. The list
\* itself is not part of the state: dequeue has no caller, nothing reads it.
EnqueuePushDone(j) ==
    /\ spc[j] = "enq_push"
    /\ \E ok \in BOOLEAN :
         IF ok
         THEN /\ pc' = [pc EXCEPT ![j] = "start"]
              /\ spc' = [spc EXCEPT ![j] = "returned"]
         ELSE /\ spc' = [spc EXCEPT ![j] = "rejected"]
              /\ UNCHANGED pc
    /\ UNCHANGED <<req, statusStore, resultStore, err, writes, calls>>
    /\ UNCHANGED nonJobVars

\* The event loop runs the task: _process_request awaits the first
\* _update_status.
ProcessStart(j) ==
    /\ pc[j] = "start"
    /\ pc' = [pc EXCEPT ![j] = "w10"]
    /\ UNCHANGED <<spc, req, statusStore, resultStore, err, writes, calls>>
    /\ UNCHANGED nonJobVars

\* An _update_status of the try block has returned or raised.
StatusWriteDone(j) ==
    /\ pc[j] \in WritePcs
    /\ \E ok \in BOOLEAN, buildOk \in BOOLEAN :
         /\ statusStore' =
              setex(statusStore, StatusKey(j), StageRecord(pc[j]), ok)
         /\ writes' = [writes EXCEPT ![j] =
                         IF ok THEN Append(@, StageRecord(pc[j])) ELSE @]
         /\ IF ok
            THEN \E r \in ReadRequest(req[j], pc[j]) :
                   /\ req' = [req EXCEPT ![j] = r]
                   /\ GoTo(j, AfterWrite(pc[j], r), buildOk)
            ELSE Catch(j, "store_error") /\ UNCHANGED req
    /\ UNCHANGED <<spc, resultStore>>
    /\ UNCHANGED nonJobVars

\* An agent's process() has returned or raised.
AgentDone(j) ==
    /\ pc[j] \in AgentPcs
    /\ \/ \E buildOk \in BOOLEAN : GoTo(j, AfterAgent(pc[j]), buildOk)
       \/ \E e \in AgentErrors : Catch(j, e)
    /\ UNCHANGED <<spc, req, statusStore, resultStore, writes>>
    /\ UNCHANGED nonJobVars

\* save_result has returned (the final _update_status is awaited) or raised.
SaveResultDone(j) ==
    /\ pc[j] = "save"
    /\ \E ok \in BOOLEAN :
         /\ resultStore' =
              setex(resultStore, ResultKey(j), ResultRecord(req[j]), ok)
         /\ IF ok
            THEN /\ pc' = [pc EXCEPT ![j] = "w100"]
                 /\ UNCHANGED <<err, calls>>
            ELSE Catch(j, "store_error")
    /\ UNCHANGED <<spc, req, statusStore, writes>>
    /\ UNCHANGED nonJobVars

\* _update_status(.., "completed", 100, ..) has returned or raised.
CompleteWriteDone(j) ==
    /\ pc[j] = "w100"
    /\ \E ok \in BOOLEAN :
         /\ statusStore' =
              setex(statusStore, StatusKey(j), CompletedRecord, ok)
         /\ writes' = [writes EXCEPT ![j] =
                         IF ok THEN Append(@, CompletedRecord) ELSE @]
         /\ IF ok
            THEN /\ pc' = [pc EXCEPT ![j] = "done"]
                 /\ UNCHANGED <<err, calls>>
            ELSE Catch(j, "store_error")
    /\ UNCHANGED <<spc, req, resultStore>>
    /\ UNCHANGED nonJobVars

\* The handler's _update_status(.., "failed", 0, str(e)) has returned (the
\* exception is re-raised and the task ends) or raised (the task ends too).
FailedWriteDone(j) ==
    /\ pc[j] = "wfail"
    /\ \E ok \in BOOLEAN :
         /\ statusStore' =
              setex(statusStore, StatusKey(j), FailedRecord(err[j]), ok)
         /\ writes' = [writes EXCEPT ![j] =
                         IF ok THEN Append(@, FailedRecord(err[j])) ELSE @]
         /\ pc' = [pc EXCEPT ![j] = IF ok THEN "raised" ELSE "crashed"]
    /\ UNCHANGED <<spc, req, resultStore, err, calls>>
    /\ UNCHANGED nonJobVars

----------------------------------------------------------------------------
(* Status lookup: AgentOrchestrator.get_status, TaskQueue.get_status and    *)
(* the route get_generation_status                                          *)

\* TaskQueue.get_status then AgentOrchestrator.get_status: redis get raised
\* (the exception propagates), returned nothing (ValueError "not found"),
\* or returned the record.
get_statusSwallowing(id, readOk) ==
    IF readOk /\ statusStore[StatusKey(id)] # NoRec THEN "ok" ELSE "not_found"
get_status(id, readOk) ==
    IF ~readOk THEN "store_error"
    ELSE IF statusStore[StatusKey(id)] = NoRec THEN "not_found"
    ELSE "ok"

\* get_generation_status: ValueError -> 404, any other exception -> 500.
HttpStatus(outcome) ==
    CASE outcome = "ok" -> 200
      [] outcome = "not_found" -> 404
      [] OTHER -> 500

GetStatus(id) ==
    /\ \E readOk \in BOOLEAN :
         lookup' = [id |-> id,
                    outcome |-> get_status(id, readOk),
                    http |-> HttpStatus(get_status(id, readOk)),
                    held |-> statusStore[StatusKey(id)] # NoRec,
                    readOk |-> readOk]
    /\ UNCHANGED jobVars
    /\ UNCHANGED <<retryVars, cacheVars, valVars, extVars>>

----------------------------------------------------------------------------
(* Backoff: backend/app/utils/retry.py *)

\* Largest max_attempts, delay and backoff the model configures.
MaxAttemptsBound == 3
MaxDelay == 3
MaxBackoff == 3

RetryConfigs ==
    [max_attempts : 0..MaxAttemptsBound, delay : 1..MaxDelay,
     backoff : 1..MaxBackoff]

\* What the wrapper hands to its caller: the value an attempt returned, the
\* exception an attempt raised, or None (line 34) after no attempt.
NoOutcome == [kind |-> "none", of |-> 0]
Outcome(kind, a) == [kind |-> kind, of |-> a]

\* The exceptions the wrapped function raises: a transient failure of the
\* external call, or one that no retry can cure (call_claude's ValueError
\* "Anthropic API key not configured").
FuncErrors == {"transient", "config_error"}

CallEvent(n) == [ev |-> "call", arg |-> n]
SleepEvent(d) == [ev |-> "sleep", arg |-> d]

\* while attempt <= max_attempts
LoopTest(a, max_attempts) == a <= max_attempts

\* if attempt == max_attempts: raise
IsLastAttempt(a, max_attempts) == a = max_attempts

\* current_delay *= backoff
NextDelayAdditive(d, backoff) == d + backoff
NextDelay(d, backoff) == d * backoff

\* The decorated function is called: attempt = 1, current_delay = delay, and
\* the loop awaits func, or is not entered and the wrapper returns None.
RetryCall ==
    /\ rpc = "idle"
    /\ \E cfg \in RetryConfigs :
         /\ rcfg' = cfg
         /\ attempt' = 1
         /\ current_delay' = cfg.delay
         /\ IF LoopTest(1, cfg.max_attempts)
            THEN /\ rpc' = "calling"
                 /\ rtrace' = <<CallEvent(1)>>
                 /\ rout' = rout
            ELSE /\ rpc' = "returned"
                 /\ rtrace' = <<>>
                 /\ rout' = Outcome("None", 0)
    /\ UNCHANGED rerr
    /\ UNCHANGED <<jobVars, lookup, cacheVars, valVars, extVars>>

\* func returned (the wrapper returns its value) or raised (the wrapper
\* re-raises on the last attempt, and sleeps otherwise).
RetryAttemptDone ==
    /\ rpc = "calling"
    /\ \/ /\ rpc' = "returned"
          /\ rout' = Outcome("value", attempt)
          /\ UNCHANGED <<rtrace, rerr>>
       \/ \E e \in FuncErrors :
            /\ rerr' = e
            /\ IF IsLastAttempt(attempt, rcfg.max_attempts)
               THEN /\ rpc' = "raised"
                    /\ rout' = Outcome("error", attempt)
                    /\ UNCHANGED rtrace
               ELSE /\ rpc' = "sleeping"
                    /\ rtrace' = Append(rtrace, SleepEvent(current_delay))
                    /\ UNCHANGED rout
    /\ UNCHANGED <<rcfg, attempt, current_delay>>
    /\ UNCHANGED <<jobVars, lookup, cacheVars, valVars, extVars>>

\* asyncio.sleep returned: the delay and the attempt advance and the loop
\* tests again.
RetrySleepDone ==
    /\ rpc = "sleeping"
    /\ current_delay' = NextDelay(current_delay, rcfg.backoff)
    /\ attempt' = attempt + 1
    /\ IF LoopTest(attempt + 1, rcfg.max_attempts)
       THEN /\ rpc' = "calling"
            /\ rtrace' = Append(rtrace, CallEvent(attempt + 1))
            /\ UNCHANGED rout
       ELSE /\ rpc' = "returned"
            /\ rout' = Outcome("None", 0)
            /\ UNCHANGED rtrace
    /\ UNCHANGED <<rcfg, rerr>>
    /\ UNCHANGED <<jobVars, lookup, cacheVars, valVars, extVars>>

----------------------------------------------------------------------------
(* The cache (utils/cache.py) and the two stages that memoize through it
   (RequirementAnalyzer.process, ImageAnalyzer.process). *)

MaxExecs == 2
MaxRefs == 1
Execs == 1..MaxExecs
Refs == 1..MaxRefs

\* The two memoizing stages, named by the prefix of their cache key.
Stages == {"req_analysis", "img_analysis"}

\* cache_key = f"req_analysis:{description}" / f"img_analysis:{image_url}",
\* prefixed by _generate_key.
CacheKey(stage, ref) == <<"aem_gen", stage, ref>>
CacheKeys == {CacheKey(s, r) : s \in Stages, r \in Refs}
NoKey == <<"", "", 0>>

\* input_data['fields'] of the requirement stage: not provided, or a list of
\* fields; the image stage has no such input.
NoFields == "none"
ProvidedFields == {NoFields, "title:text"}
InputFields(stage) ==
    IF stage = "req_analysis" THEN ProvidedFields ELSE {NoFields}

\* The values parse_json_response hands to cache.set: an object with content,
\* or the empty object.
ParsedResults == {"full", "empty"}

\* json.dumps / json.loads of those values; Nil is the absent Redis entry.
Nil == "nil"
Dumps(v) == IF v = "full" THEN "{..}" ELSE "{}"
Loads(t) == IF t = "{..}" THEN "full" ELSE "empty"

\* Python truth of what the store returns ("if value:") and of what get
\* returns ("if cached_result:").
ValueTruthy(t) == t # Nil
ResultTruthy(v) == v = "full"

\* CacheManager.get that lets a failure of the store escape.
CacheGetRaising(store, key, enabled, ok) ==
    IF ~enabled THEN [raised |-> FALSE, value |-> "None"]
    ELSE IF ~ok THEN [raised |-> TRUE, value |-> "None"]
    ELSE IF ValueTruthy(store[key])
         THEN [raised |-> FALSE, value |-> Loads(store[key])]
         ELSE [raised |-> FALSE, value |-> "None"]

\* CacheManager.get: None when disabled, when the store call raises
\* (ok = FALSE) and when the entry is absent.
CacheGet(store, key, enabled, ok) ==
    IF ~enabled THEN [raised |-> FALSE, value |-> "None"]
    ELSE IF ~ok THEN [raised |-> FALSE, value |-> "None"]
    ELSE IF ValueTruthy(store[key])
         THEN [raised |-> FALSE, value |-> Loads(store[key])]
         ELSE [raised |-> FALSE, value |-> "None"]

\* CacheManager.set: returns normally whatever the store does; a setex that
\* raises stores nothing.
CacheSet(store, key, value, enabled, ok) ==
    IF enabled /\ ok
    THEN [raised |-> FALSE, store |-> [store EXCEPT ![key] = Dumps(value)]]
    ELSE [raised |-> FALSE, store |-> store]

\* How a cache operation ended, for the history.
CacheOpResult(enabled, ok, reached) ==
    IF ~enabled THEN "off" ELSE IF ~ok THEN "fault" ELSE reached

CacheEvent(op, res) == [op |-> op, res |-> res]

\* CacheManager.__init__ reads settings.ENABLE_CACHING.
CacheManagerInit ==
    /\ cenabled = "unset"
    /\ \E on \in BOOLEAN : cenabled' = IF on THEN "on" ELSE "off"
    /\ UNCHANGED <<cstore, cexpired, xpc, xkey, xres, xtrace, extCalls>>
    /\ UNCHANGED <<xfields, xfrom, cfrom>>
    /\ UNCHANGED <<jobVars, lookup, retryVars, valVars, extVars>>

\* process is entered and suspends at cache.get.
AnalyzerProcess(e) ==
    /\ cenabled # "unset"
    /\ xpc[e] = "idle"
    /\ \E s \in Stages, r \in Refs :
       \E f \in InputFields(s) :
         /\ xkey' = [xkey EXCEPT ![e] = CacheKey(s, r)]
         /\ xfields' = [xfields EXCEPT ![e] = f]
    /\ xpc' = [xpc EXCEPT ![e] = "get"]
    /\ UNCHANGED <<cenabled, cstore, cexpired, xres, xtrace, extCalls>>
    /\ UNCHANGED <<xfrom, cfrom>>
    /\ UNCHANGED <<jobVars, lookup, retryVars, valVars, extVars>>

\* cache.get completes: a truthy cached result is returned, anything else
\* sends process on to the agent call.
AnalyzerGetDone(e) ==
    /\ xpc[e] = "get"
    /\ \E ok \in BOOLEAN :
        LET g == CacheGet(cstore, xkey[e], cenabled = "on", ok)
            hit == ~g.raised /\ ResultTruthy(g.value)
            res == CacheOpResult(cenabled = "on", ok,
                                 IF hit THEN "hit" ELSE "miss")
        IN /\ xtrace' = [xtrace EXCEPT ![e] = Append(@, CacheEvent("get", res))]
           /\ IF g.raised
              THEN /\ xpc' = [xpc EXCEPT ![e] = "failed"]
                   /\ xres' = [xres EXCEPT ![e] = "cache_error"]
              ELSE IF hit
              THEN /\ xpc' = [xpc EXCEPT ![e] = "done"]
                   /\ xres' = [xres EXCEPT ![e] = g.value]
              ELSE /\ xpc' = [xpc EXCEPT ![e] = "call"]
                   /\ UNCHANGED xres
           /\ xfrom' = [xfrom EXCEPT ![e] =
                          IF hit THEN cfrom[xkey[e]] ELSE @]
    /\ UNCHANGED <<cenabled, cstore, cexpired, xkey, extCalls>>
    /\ UNCHANGED <<xfields, cfrom>>
    /\ UNCHANGED <<jobVars, lookup, retryVars, valVars, extVars>>

\* call_gpt4 / call_gpt4_vision completes and the response is parsed: an
\* exception of either leaves process, a parsed result goes to cache.set.
AnalyzerCallDone(e) ==
    /\ xpc[e] = "call"
    /\ extCalls' = [extCalls EXCEPT ![xkey[e]] = @ + 1]
    /\ \E out \in ParsedResults \cup AgentErrors :
        /\ xtrace' = [xtrace EXCEPT ![e] = Append(@, CacheEvent("call", out))]
        /\ xres' = [xres EXCEPT ![e] = out]
        /\ xpc' = [xpc EXCEPT ![e] =
                     IF out \in AgentErrors THEN "failed" ELSE "set"]
        /\ xfrom' = [xfrom EXCEPT ![e] =
                       IF out \in AgentErrors THEN @ ELSE xfields[e]]
    /\ UNCHANGED <<cenabled, cstore, cexpired, xkey>>
    /\ UNCHANGED <<xfields, cfrom>>
    /\ UNCHANGED <<jobVars, lookup, retryVars, valVars, extVars>>

\* cache.set completes and process returns the parsed result.
AnalyzerSetDone(e) ==
    /\ xpc[e] = "set"
    /\ \E ok \in BOOLEAN :
        LET st == CacheSet(cstore, xkey[e], xres[e], cenabled = "on", ok)
            res == CacheOpResult(cenabled = "on", ok, "stored")
        IN /\ cstore' = st.store
           /\ cfrom' = [cfrom EXCEPT ![xkey[e]] =
                          IF res = "stored" THEN xfields[e] ELSE @]
           /\ xtrace' = [xtrace EXCEPT ![e] = Append(@, CacheEvent("set", res))]
           /\ IF st.raised
              THEN /\ xpc' = [xpc EXCEPT ![e] = "failed"]
                   /\ xres' = [xres EXCEPT ![e] = "cache_error"]
              ELSE /\ xpc' = [xpc EXCEPT ![e] = "done"]
                   /\ UNCHANGED xres
    /\ UNCHANGED <<cenabled, cexpired, xkey, extCalls>>
    /\ UNCHANGED <<xfields, xfrom>>
    /\ UNCHANGED <<jobVars, lookup, retryVars, valVars, extVars>>

\* Redis drops an entry whose TTL (3600 / 7200 seconds) has run out.
CacheExpire(k) ==
    /\ cstore[k] # Nil
    /\ cstore' = [cstore EXCEPT ![k] = Nil]
    /\ cexpired' = cexpired \cup {k}
    /\ UNCHANGED <<cenabled, xpc, xkey, xres, xtrace, extCalls>>
    /\ UNCHANGED <<xfields, xfrom, cfrom>>
    /\ UNCHANGED <<jobVars, lookup, retryVars, valVars, extVars>>

----------------------------------------------------------------------------
(* The validator (agents/validator.py): the deterministic rubric
   _automated_validation, the secondary assessment _llm_validation and
   _merge_validations.

   The text of an artifact is a set of fragments; Matches(f) lists the
   tests of the rubric (substring tests and regular expressions, named by
   their pattern) that fragment f satisfies, so a test on a text is a test
   on its fragments. The empty set is the absent or empty artifact. *)

MaxDefects == 2

Categories ==
    {"completeness", "bestPractices", "performance", "accessibility",
     "security"}

Whitespace == "  "

\* The fragments a Sling Model, a template and a dialog are built from.
ModelFragments ==
    {"package com.site.core.models;", "public class HeroModel { }",
     "@Model(adaptables = Resource.class, resourceType = RT) + imports",
     "@ValueMapValue private String title; + import + null-safe getTitle()",
     "@PostConstruct protected void init() { } + import"}
HtlFragments ==
    {"<div data-sly-use.model=\"com.site.core.models.HeroModel\"></div>",
     "aria-label=\"hero\"", "data-sly-test=\"${model.title}\"",
     "class=\"hero\""}
DialogFragments == {"granite/ui/components/coral", "fieldLabel=\"Title\""}
CssFragments == {"@media (min-width: 768px) { }", ".hero:hover { }"}
JsFragments == {"el.addEventListener('click', f)", "console.log(x)"}

\* Fragments that are defects wherever they stand.
Defects ==
    {"TODO", "eval(x)", "eval(x); eval(y)", "eval (x)",
     "el.innerHTML = x", "password = 'hunter2'",
     "\"SELECT * \" + t + \" FROM x\""}

Matches(f) ==
    CASE f = "package com.site.core.models;" ->
            {"package\\s+([^;]+);", "endswith core.models"}
      [] f = "public class HeroModel { }" ->
            {"public\\s+class\\s+(\\w+)", "endswith Model", "PascalCase"}
      [] f = "@Model(adaptables = Resource.class, resourceType = RT) + imports" ->
            {"@Model", "adaptables", "Resource.class", "resourceType",
             "Resource", "import org.apache.sling.models.annotations.Model;",
             "import org.apache.sling.api.resource.Resource;"}
      [] f = "@ValueMapValue private String title; + import + null-safe getTitle()" ->
            {"@ValueMapValue", "StringUtils", "StringUtils.isNotBlank", "null",
             "import org.apache.sling.models.annotations.injectorspecific.ValueMapValue;"}
      [] f = "@PostConstruct protected void init() { } + import" ->
            {"@PostConstruct", "import javax.annotation.PostConstruct;"}
      [] f = "<div data-sly-use.model=\"com.site.core.models.HeroModel\"></div>" ->
            {"data-sly-use"}
      [] f = "aria-label=\"hero\"" -> {"aria-\\w+"}
      [] f = "data-sly-test=\"${model.title}\"" -> {"data-sly-test|data-sly-if"}
      [] f = "class=\"hero\"" -> {"class=|id="}
      [] f = "granite/ui/components/coral" -> {"granite/ui/components"}
      [] f = "fieldLabel=\"Title\"" -> {"fieldLabel"}
      [] f = "@media (min-width: 768px) { }" -> {"@media"}
      [] f = ".hero:hover { }" -> {":hover"}
      [] f = "el.addEventListener('click', f)" -> {"addEventListener"}
      [] f = "console.log(x)" -> {"console.log"}
      [] f = "TODO" -> {"TODO"}
      [] f = "eval(x)" -> {"eval\\s*\\(", "eval("}
      [] f = "eval(x); eval(y)" -> {"eval\\s*\\(", "eval("}
      [] f = "eval (x)" -> {"eval\\s*\\("}
      [] f = "el.innerHTML = x" -> {"innerHTML\\s*=", "innerHTML"}
      [] f = "password = 'hunter2'" -> {"password\\s*=\\s*[\"'][^\"']+[\"']"}
      [] f = "\"SELECT * \" + t + \" FROM x\"" -> {"SELECT\\s+.*\\+.*FROM"}
      [] OTHER -> {}

\* "pattern in content" / re.search(pattern, content).
Contains(content, pattern) == \E f \in content : pattern \in Matches(f)

\* "not file_content or not file_content.strip()".
MissingAbsentOnly(content) == content = {}
Missing(content) == content = {} \/ content \subseteq {Whitespace}

\* An entry of issues or suggestions: the message and the names put in it.
Entry(text, names) == [text |-> text, names |-> names]
Say(text) == Entry(text, <<>>)

Delta(c, b, p, a, s) ==
    [completeness |-> c, bestPractices |-> b, performance |-> p,
     accessibility |-> a, security |-> s]
NoDelta == Delta(0, 0, 0, 0, 0)

\* What one block of checks adds to issues, suggestions and scores.
Block(issues, suggestions, delta) ==
    [issues |-> issues, suggestions |-> suggestions, delta |-> delta]

If(cond, q) == IF cond THEN q ELSE <<>>
Bool(cond, n) == IF cond THEN n ELSE 0

\* The top-level artifacts that are strings, in the order files.items()
\* yields them.
TextFiles == <<"slingModel", "htl", "dialog">>

PlaceholderPatterns ==
    <<"TODO", "FIXME", "// Add .* here", "/\\* .* code here \\*/",
      "\\.\\.\\.", "placeholder", "implement here", "fill in">>

\* Lines 103-119: one issue and 15 points of completeness for every artifact
\* and every pattern found in it.
PlaceholderCheck(files) ==
    LET np == Len(PlaceholderPatterns)
        pairs == [i \in 1..(Len(TextFiles) * np) |->
                    <<TextFiles[((i - 1) \div np) + 1],
                      PlaceholderPatterns[((i - 1) % np) + 1]>>]
        hits == SelectSeq(pairs, LAMBDA x : Contains(files[x[1]], x[2]))
    IN Block([i \in 1..Len(hits) |->
                 Entry("Placeholder or incomplete code found in", <<hits[i][1]>>)],
             <<>>, Delta(-15 * Len(hits), 0, 0, 0, 0))

\* Lines 121-131.
RequiredFilesCheck(files) ==
    LET missing_files ==
            SelectSeq(<<"slingModel", "htl", "dialog">>,
                      LAMBDA f : Missing(files[f]))
    IN Block(If(missing_files # <<>>,
                <<Entry("Missing or empty required files:", missing_files)>>),
             <<>>, Delta(-25 * Len(missing_files), 0, 0, 0, 0))

\* file_path.split('/')[-1].replace('.java', '') and the package of the path.
ExpectedFileName(path) ==
    IF path = "core/src/main/java/com/site/core/models/Hero.java"
    THEN "Hero" ELSE ""
ClassName(content) ==
    IF "public class HeroModel { }" \in content THEN "HeroModel" ELSE ""

\* _validate_java_class_consistency.
JavaClassIssues(java_content, file_path) ==
    IF ~Contains(java_content, "public\\s+class\\s+(\\w+)")
    THEN <<Say("No public class declaration found in Sling Model")>>
    ELSE If(file_path # "" /\ ClassName(java_content) # ExpectedFileName(file_path),
            <<Entry("Class name does not match file name",
                    <<ClassName(java_content), ExpectedFileName(file_path)>>)>>)
         \o If(~Contains(java_content, "endswith Model"),
               <<Entry("Sling Model class should end with 'Model' suffix",
                       <<ClassName(java_content)>>)>>)
         \o If(~Contains(java_content, "PascalCase"),
               <<Entry("Class name should be in PascalCase format",
                       <<ClassName(java_content)>>)>>)

\* Lines 133-141.
JavaClassCheck(files) ==
    LET java_issues ==
            IF files.slingModel # {} /\ files.slingModelPath # ""
            THEN JavaClassIssues(files.slingModel, files.slingModelPath)
            ELSE <<>>
    IN Block(java_issues, <<>>,
             Delta(0, Bool(java_issues # <<>>, -20), 0, 0, 0))

\* _validate_package_declarations. The one path of the model lies in the
\* package its Sling Model declares, so the path comparison finds nothing.
PackageIssues(files) ==
    IF files.slingModel = {} THEN <<>>
    ELSE IF ~Contains(files.slingModel, "package\\s+([^;]+);")
    THEN <<Say("Missing package declaration in Sling Model")>>
    ELSE If(~Contains(files.slingModel, "endswith core.models"),
            <<Say("Package should end with '.core.models'")>>)

\* Lines 143-147.
PackageCheck(files) ==
    LET package_issues == PackageIssues(files)
    IN Block(package_issues, <<>>,
             Delta(0, Bool(package_issues # <<>>, -15), 0, 0, 0))

RequiredImports ==
    <<<<"@Model", "import org.apache.sling.models.annotations.Model;">>,
      <<"@ValueMapValue",
        "import org.apache.sling.models.annotations.injectorspecific.ValueMapValue;">>,
      <<"Resource", "import org.apache.sling.api.resource.Resource;">>,
      <<"@Optional", "import org.apache.sling.models.annotations.Optional;">>,
      <<"@Default", "import org.apache.sling.models.annotations.Default;">>,
      <<"@PostConstruct", "import javax.annotation.PostConstruct;">>,
      <<"List<", "import java.util.List;">>,
      <<"ArrayList", "import java.util.ArrayList;">> >>

\* _check_compilation_errors.
CompilationIssues(files) ==
    LET sm == files.slingModel
        htl == files.htl
        missing_imports ==
            SelectSeq(RequiredImports,
                      LAMBDA x : Contains(sm, x[1]) /\ ~Contains(sm, x[2]))
        model_issues ==
            [i \in 1..Len(missing_imports) |->
                Entry("Missing import:", <<missing_imports[i][2]>>)]
            \o If(Contains(sm, "InjectionStrategy.OPTIONAL"),
                  <<Say("Using deprecated InjectionStrategy.OPTIONAL - use @Optional annotation instead")>>)
            \o If(Contains(sm, "@Model")
                    /\ (~Contains(sm, "adaptables") \/ ~Contains(sm, "Resource.class")),
                  <<Say("@Model annotation should specify adaptables = Resource.class")>>)
            \o If(Contains(sm, "@Model") /\ ~Contains(sm, "resourceType"),
                  <<Say("@Model annotation missing resourceType parameter")>>)
            \o If(Contains(sm, "count('{') != count('}')"),
                  <<Say("Unmatched braces")>>)
            \o If(Contains(sm, "count('(') != count(')')"),
                  <<Say("Unmatched parentheses")>>)
            \o If(Contains(sm, "@ValueMapValue field without getter"),
                  <<Say("Missing getter method for field")>>)
        htl_issues ==
            If(Contains(htl, "open tag without closing tag"),
               <<Say("Unmatched HTML tag: has no closing tag")>>)
            \o If(Contains(htl, "data-sly-use value not a class name"),
                  <<Say("Invalid data-sly-use class name")>>)
    IN If(sm # {}, model_issues) \o If(htl # {}, htl_issues)

\* Lines 149-153.
CompilationCheck(files) ==
    LET compilation_issues == CompilationIssues(files)
    IN Block(compilation_issues, <<>>,
             Delta(Bool(compilation_issues # <<>>, -30), 0, 0, 0, 0))

\* The patterns of _check_security_vulnerabilities with their messages, in
\* the order they are tried (re.search: one message per pattern, however
\* often it occurs).
VulnerabilityPatterns ==
    <<<<"innerHTML\\s*=", "Potential XSS: Use textContent instead of innerHTML">>,
      <<"document\\.write\\s*\\(", "Potential XSS: Avoid document.write()">>,
      <<"eval\\s*\\(", "Security risk: Avoid eval() function">>,
      <<"Function\\s*\\(", "Security risk: Avoid Function() constructor">>,
      <<"setTimeout\\s*\\([^,)]*[\"'][^\"']*[\"']",
        "Potential XSS: Avoid string-based setTimeout">>,
      <<"setInterval\\s*\\([^,)]*[\"'][^\"']*[\"']",
        "Potential XSS: Avoid string-based setInterval">>,
      <<"SELECT\\s+.*\\+.*FROM", "Potential SQL injection: Use parameterized queries">>,
      <<"INSERT\\s+.*\\+.*VALUES", "Potential SQL injection: Use parameterized queries">>,
      <<"UPDATE\\s+.*SET.*\\+", "Potential SQL injection: Use parameterized queries">>,
      <<"DELETE\\s+.*WHERE.*\\+", "Potential SQL injection: Use parameterized queries">>,
      <<"password\\s*=\\s*[\"'][^\"']+[\"']", "Hardcoded password detected">>,
      <<"secret\\s*=\\s*[\"'][^\"']+[\"']", "Hardcoded secret detected">>,
      <<"api[_-]?key\\s*=\\s*[\"'][^\"']+[\"']", "Hardcoded API key detected">>,
      <<"token\\s*=\\s*[\"'][^\"']+[\"']", "Hardcoded token detected">> >>

\* The concatenation of the top-level string artifacts.
AllContent(files) == files.slingModel \cup files.htl \cup files.dialog

\* _check_security_vulnerabilities.
VulnerabilityIssues(files) ==
    LET all_content == AllContent(files)
        sm == files.slingModel
        htl == files.htl
        found == SelectSeq(VulnerabilityPatterns,
                           LAMBDA x : Contains(all_content, x[1]))
    IN [i \in 1..Len(found) |-> Say(found[i][2])]
       \o If(sm # {} /\ Contains(sm, "@ValueMapValue") /\ ~Contains(sm, "StringUtils"),
             <<Say("Consider adding input validation using StringUtils or similar")>>)
       \o If(sm # {} /\ Contains(sm, "ResourceResolver") /\ ~Contains(sm, "close()"),
             <<Say("Potential resource leak: ResourceResolver should be properly closed")>>)
       \o If(sm # {} /\ Contains(sm, "getter body without null"),
             <<Say("Getter should include null safety check")>>)
       \o If(htl # {} /\ Contains(htl, "context='unsafe'"),
             <<Say("Unsafe context detected in HTL - potential XSS vulnerability")>>)
       \o If(htl # {} /\ Contains(htl, "<script[^>]*>\\s*\\$\\{"),
             <<Say("Direct variable injection in script tag - potential XSS")>>)

\* Lines 155-159: 25 points of security once, whatever the number of
\* vulnerability issues.
VulnerabilityCheck(files) ==
    LET vulnerability_issues == VulnerabilityIssues(files)
    IN Block(vulnerability_issues, <<>>,
             Delta(0, 0, 0, 0, Bool(vulnerability_issues # <<>>, -25)))

\* Lines 161-191.
HtlCheck(files) ==
    LET htl_content == files.htl
        use == Contains(htl_content, "data-sly-use")
        aria == Contains(htl_content, "aria-\\w+")
        test == Contains(htl_content, "data-sly-test|data-sly-if")
        class == Contains(htl_content, "class=|id=")
        htl_checks == Bool(use, 1) + Bool(aria, 1) + Bool(test, 1) + Bool(class, 1)
    IN IF htl_content = {} THEN Block(<<>>, <<>>, NoDelta)
       ELSE Block(
            If(~use, <<Say("HTL missing data-sly-use directive for Sling Model integration")>>),
            If(~aria, <<Say("Add ARIA attributes for better accessibility")>>)
              \o If(~test, <<Say("Consider adding conditional rendering with data-sly-test")>>)
              \o If(~class, <<Say("Add CSS classes for styling")>>),
            Delta(0,
                  Bool(~use, -15) + Bool(~test, -5) + Bool(htl_checks >= 3, 5),
                  Bool(~class, -5),
                  Bool(~aria, -10),
                  0))

\* Lines 193-226.
SlingModelCheck(files) ==
    LET sling_model == files.slingModel
        model == Contains(sling_model, "@Model")
        inject == Contains(sling_model, "@Inject")
                    \/ Contains(sling_model, "@ValueMapValue")
        nullsafe == \/ Contains(sling_model, "StringUtils.isNotBlank")
                    \/ Contains(sling_model, "Optional")
                    \/ Contains(sling_model, "null")
        post == Contains(sling_model, "@PostConstruct")
        leak == Contains(sling_model, "ResourceResolver")
                  /\ ~Contains(sling_model, "try-with-resources")
        model_checks ==
            Bool(model, 1) + Bool(inject, 1) + Bool(nullsafe, 1) + Bool(post, 1)
    IN IF sling_model = {} THEN Block(<<>>, <<>>, NoDelta)
       ELSE Block(
            If(~model, <<Say("Sling Model missing @Model annotation")>>)
              \o If(~nullsafe, <<Say("Missing null safety checks in Sling Model")>>),
            If(~inject, <<Say("Consider using dependency injection (@Inject, @ValueMapValue)")>>)
              \o If(leak, <<Say("Use try-with-resources for ResourceResolver")>>),
            Delta(Bool(model_checks >= 3, 5),
                  Bool(~model, -20) + Bool(~inject, -10) + Bool(post, 5),
                  0, 0,
                  Bool(~nullsafe, -15) + Bool(leak, -10)))

\* Lines 228-241.
DialogCheck(files) ==
    LET dialog_content == files.dialog
        granite == Contains(dialog_content, "granite/ui/components")
        label == Contains(dialog_content, "fieldLabel")
    IN IF dialog_content = {} THEN Block(<<>>, <<>>, NoDelta)
       ELSE Block(<<>>,
                  If(~granite, <<Say("Use Granite UI components in dialog")>>)
                    \o If(~label, <<Say("Add field labels for accessibility")>>),
                  Delta(0, IF granite THEN 5 ELSE -10, 0,
                        IF label THEN 5 ELSE -10, 0))

\* Lines 243-265.
ClientlibsCheck(files) ==
    LET css_content == files.css
        js_content == files.js
        responsive == Contains(css_content, "responsive")
                        \/ Contains(css_content, "@media")
        focus == Contains(css_content, "focus") \/ Contains(css_content, ":hover")
        listener == Contains(js_content, "addEventListener")
        log == Contains(js_content, "console.log")
    IN Block(<<>>,
             If(css_content # {} /\ ~responsive,
                <<Say("Consider responsive design in CSS")>>)
               \o If(js_content # {} /\ log,
                     <<Say("Remove console.log statements in production code")>>),
             Delta(0,
                   Bool(js_content # {} /\ listener, 5),
                   Bool(js_content # {} /\ log, -5),
                   Bool(css_content # {}, IF responsive THEN 5 ELSE -5)
                     + Bool(css_content # {} /\ focus, 5),
                   0))

\* Lines 267-275.
InlineSecurityCheck(files) ==
    LET all_content == AllContent(files)
        inner == Contains(all_content, "innerHTML")
        eval == Contains(all_content, "eval(")
    IN Block(If(inner, <<Say("Potential XSS vulnerability: avoid innerHTML")>>)
               \o If(eval, <<Say("Security risk: avoid eval() function")>>),
             <<>>,
             Delta(0, 0, 0, 0, Bool(inner, -20) + Bool(eval, -25)))

\* The blocks of _automated_validation in the order the code runs them.
Blocks(files) ==
    <<PlaceholderCheck(files), RequiredFilesCheck(files), JavaClassCheck(files),
      PackageCheck(files), CompilationCheck(files), VulnerabilityCheck(files),
      HtlCheck(files), SlingModelCheck(files), DialogCheck(files),
      ClientlibsCheck(files), InlineSecurityCheck(files)>>

RECURSIVE SumDelta(_, _)
SumDelta(blocks, key) ==
    IF blocks = <<>> THEN 0
    ELSE Head(blocks).delta[key] + SumDelta(Tail(blocks), key)

RECURSIVE Concat(_, _)
Concat(blocks, field) ==
    IF blocks = <<>> THEN <<>>
    ELSE Head(blocks)[field] \o Concat(Tail(blocks), field)

\* The scores before lines 277-279: 100 and what the blocks add.
RawOf(blocks) == [key \in Categories |-> 100 + SumDelta(blocks, key)]
RawScores(files) == RawOf(Blocks(files))

\* Line 279: max(0, min(100, score)).
Clamp(x) == IF x < 0 THEN 0 ELSE IF x > 100 THEN 100 ELSE x

\* Lines 281-290: int(sum(scores[key] * weights[key])). The scores are
\* multiples of 5 between 0 and 100, and on those the floating-point sum
\* truncates to the exact floor of the weighted sum.
WeightPercent ==
    [completeness |-> 30, bestPractices |-> 25, performance |-> 15,
     accessibility |-> 15, security |-> 15]
Weighted(scores) ==
    (  scores.completeness * WeightPercent.completeness
     + scores.bestPractices * WeightPercent.bestPractices
     + scores.performance * WeightPercent.performance
     + scores.accessibility * WeightPercent.accessibility
     + scores.security * WeightPercent.security) \div 100

StatusOfScore(score) == IF score >= 70 THEN "PASS" ELSE "FAIL"

Report(status, score, issues, suggestions, details) ==
    [validationStatus |-> status, score |-> score, issues |-> issues,
     suggestions |-> suggestions, details |-> details]

\* _automated_validation.
AutomatedValidation(files) ==
    LET blocks == Blocks(files)
        raw == RawOf(blocks)
        scores == [key \in Categories |-> Clamp(raw[key])]
        overall_score == Weighted(scores)
    IN Report(StatusOfScore(overall_score), overall_score,
              Concat(blocks, "issues"), Concat(blocks, "suggestions"), scores)

\* A value of a dict as the code reads it: present with a number or a list,
\* or missing (the default of .get / setdefault applies).
Num(n) == [has |-> TRUE, v |-> n]
NoNum == [has |-> FALSE, v |-> 0]
List(q) == [has |-> TRUE, v |-> q]
NoList == [has |-> FALSE, v |-> <<>>]
Details(d) == [has |-> TRUE, d |-> d]
NoDetails == [has |-> FALSE, d |-> [key \in Categories |-> NoNum]]
Dict(score, issues, suggestions, details) ==
    [score |-> score, issues |-> issues, suggestions |-> suggestions,
     details |-> details]
EmptyDict == Dict(NoNum, NoList, NoList, NoDetails)

\* dict.get(key, default).
Get(field, default) == IF field.has THEN field.v ELSE default
\* dict.get('details', {}).get(key, default).
GetDetail(dict, key, default) ==
    IF dict.details.has THEN Get(dict.details.d[key], default) ELSE default

\* A report as the dict _merge_validations reads.
AsDict(report) ==
    Dict(Num(report.score), List(report.issues), List(report.suggestions),
         Details([key \in Categories |-> Num(report.details[key])]))

AllDetails(n) == Details([key \in Categories |-> Num(n)])
OnlySecurity(n) ==
    Details([key \in Categories |-> IF key = "security" THEN Num(n) ELSE NoNum])

\* The texts the secondary assessment answers with: text that is no JSON,
\* JSON that is no object, and objects with all, some or none of the fields,
\* with numbers in and out of 0..100 and with issues the rubric also finds.
LlmResponses ==
    {[parses |-> FALSE, object |-> FALSE, value |-> EmptyDict],
     [parses |-> TRUE, object |-> FALSE, value |-> EmptyDict],
     [parses |-> TRUE, object |-> TRUE, value |-> EmptyDict]}
    \cup
    {[parses |-> TRUE, object |-> TRUE, value |-> d] : d \in
        {Dict(Num(80), List(<<Say("Model lacks unit tests")>>),
              List(<<Say("Add ARIA attributes for better accessibility")>>),
              AllDetails(80)),
         Dict(Num(140), NoList, NoList, AllDetails(140)),
         Dict(Num(-20), List(<<>>), NoList, AllDetails(-20)),
         Dict(Num(90), NoList, List(<<>>), OnlySecurity(90)),
         Dict(NoNum,
              List(<<Say("Security risk: avoid eval() function"),
                     Say("Security risk: avoid eval() function")>>),
              NoList, AllDetails(100)),
         Dict(Num(55),
              List(<<Entry("Missing or empty required files:", <<"dialog">>)>>),
              NoList, NoDetails)}}

\* BaseAgent.parse_json_response: json.loads of the text, ValueError when it
\* is no JSON.
ParseJsonResponse(response) ==
    IF response.parses
    THEN [raised |-> FALSE, object |-> response.object, value |-> response.value]
    ELSE [raised |-> TRUE, object |-> FALSE, value |-> EmptyDict]

\* Lines 395-415: a result that is no dict becomes {}, and setdefault fills
\* the top-level keys that are missing.
LlmDefaults(parsed) ==
    LET result == IF parsed.object THEN parsed.value ELSE EmptyDict
    IN Dict(Num(Get(result.score, 50)),
            List(Get(result.issues, <<>>)),
            List(Get(result.suggestions, <<>>)),
            IF result.details.has THEN result.details ELSE AllDetails(50))

Range(q) == {q[i] : i \in 1..Len(q)}

\* list(set(..)): each element once, in an order the code does not fix.
RECURSIVE SetToSeq(_)
SetToSeq(S) ==
    IF S = {} THEN <<>>
    ELSE LET x == CHOOSE y \in S : TRUE IN <<x>> \o SetToSeq(S \ {x})

\* The two lists joined with their repetitions kept.
MergeListsConcat(a, b) == a \o b
\* Lines 421-422: list(set(a + b)).
MergeLists(a, b) == SetToSeq(Range(a \o b))

\* _merge_validations.
MergeValidations(auto_result, llm_result) ==
    LET all_issues ==
            MergeLists(Get(auto_result.issues, <<>>), Get(llm_result.issues, <<>>))
        all_suggestions ==
            MergeLists(Get(auto_result.suggestions, <<>>),
                       Get(llm_result.suggestions, <<>>))
        final_score ==
            (Get(auto_result.score, 0) + Get(llm_result.score, 0)) \div 2
        merged_details ==
            [key \in Categories |->
                (GetDetail(auto_result, key, 0) + GetDetail(llm_result, key, 0))
                    \div 2]
    IN Report(StatusOfScore(final_score), final_score, all_issues,
              all_suggestions, merged_details)

NoReport ==
    Report("none", 0, <<>>, <<>>, [key \in Categories |-> 0])
NoFiles ==
    [slingModel |-> {}, htl |-> {}, dialog |-> {}, css |-> {}, js |-> {},
     slingModelPath |-> ""]

\* The bundles validated: each artifact absent, poor or complete, and up to
\* MaxDefects defects put into one of the string artifacts.
SlingModels ==
    {[content |-> {}, path |-> ""],
     [content |-> {"package com.site.core.models;", "public class HeroModel { }"},
      path |-> "core/src/main/java/com/site/core/models/Hero.java"],
     [content |-> ModelFragments, path |-> ""]}
HtlContents == {{}, {"class=\"hero\""}, HtlFragments}
DialogContents == {{}, {Whitespace}, DialogFragments}
ClientlibsContents ==
    {[css |-> {}, js |-> {}],
     [css |-> CssFragments, js |-> JsFragments]}
DefectSets == {D \in SUBSET Defects : Cardinality(D) <= MaxDefects}

Bundle(sm, htl, dialog, libs) ==
    [slingModel |-> sm.content, htl |-> htl, dialog |-> dialog,
     css |-> libs.css, js |-> libs.js, slingModelPath |-> sm.path]
WithDefects(files, name, D) ==
    IF D = {} THEN files
    ELSE CASE name = "slingModel" -> [files EXCEPT !.slingModel = @ \cup D]
           [] name = "htl" -> [files EXCEPT !.htl = @ \cup D]
           [] name = "dialog" -> [files EXCEPT !.dialog = (@ \ {Whitespace}) \cup D]

\* process is called: the rubric runs, and with deep_validation the
\* coroutine suspends at the call of the secondary assessment.
ValidatorProcess ==
    /\ vpc = "idle"
    /\ \E sm \in SlingModels, htl \in HtlContents,
          dialog \in DialogContents, libs \in ClientlibsContents,
          D \in DefectSets, i \in 1..Len(TextFiles),
          deep_validation \in BOOLEAN :
        LET files == WithDefects(Bundle(sm, htl, dialog, libs),
                                 TextFiles[i], D)
            validation_result == AutomatedValidation(files)
        IN /\ vfiles' = files
           /\ vauto' = validation_result
           /\ IF deep_validation
              THEN /\ vpc' = "llm"
                   /\ UNCHANGED vreport
              ELSE /\ vpc' = "done"
                   /\ vreport' = validation_result
    /\ UNCHANGED <<vllm, verr>>
    /\ UNCHANGED <<jobVars, lookup, retryVars, cacheVars, extVars>>

\* call_gpt4 completes in _llm_validation: an exception of the call or of
\* the parse leaves process; a parsed response is filled up and merged.
LlmValidationDone ==
    /\ vpc = "llm"
    /\ \/ /\ vpc' = "failed"
          /\ verr' = "call_error"
          /\ UNCHANGED <<vllm, vreport>>
       \/ \E response \in LlmResponses :
            LET parsed == ParseJsonResponse(response)
                llm_validation == LlmDefaults(parsed)
            IN IF parsed.raised
               THEN /\ vpc' = "failed"
                    /\ verr' = "parse_error"
                    /\ UNCHANGED <<vllm, vreport>>
               ELSE /\ vpc' = "done"
                    /\ vllm' = llm_validation
                    /\ vreport' = MergeValidations(AsDict(vauto), llm_validation)
                    /\ UNCHANGED verr
    /\ UNCHANGED <<vfiles, vauto>>
    /\ UNCHANGED <<jobVars, lookup, retryVars, cacheVars, extVars>>

----------------------------------------------------------------------------
(* Component generator: backend/app/agents/component_generator.py          *)
(* A text is a sequence of tokens; the empty sequence is the empty string. *)
(* A dotted or slashed name is the tuple of its parts.                     *)

\* settings.DEFAULT_APP_ID, settings.DEFAULT_PACKAGE_NAME
DEFAULT_APP_ID == "wknd"
DEFAULT_PACKAGE_NAME == "com.adobe.aem.guides.wknd"

\* A key the dict lacks.
Absent == "<absent>"

Tok(k, v, use, attrs) == [k |-> k, v |-> v, use |-> use, attrs |-> attrs]
Open(tag, use, attrs) == Tok("open", <<tag>>, use, attrs)
Close(tag) == Tok("close", <<tag>>, <<>>, <<>>)
Text(s) == Tok("text", <<s>>, <<>>, <<>>)
Pkg(p) == Tok("package", p, <<>>, <<>>)
Imp(s) == Tok("import", <<s>>, <<>>, <<>>)
ModelAnn(resource_type) == Tok("@Model", resource_type, <<>>, <<>>)
Cls(kind, name) == Tok(kind, name, <<>>, <<>>)
Code(s) == Tok("code", <<s>>, <<>>, <<>>)
Xml(primaryType, title, resource_type) ==
    Tok("xml", <<primaryType, title>>, <<>>, resource_type)

\* component_name.title().replace('-', '') and .title().replace('-', ' ')
TitleJoined(component_name) ==
    CASE component_name = "hero" -> "Hero"
      [] component_name = "hero-banner" -> "HeroBanner"
      [] component_name = "component" -> "Component"
TitleSpaced(component_name) ==
    CASE component_name = "hero" -> "Hero"
      [] component_name = "hero-banner" -> "Hero Banner"
      [] component_name = "component" -> "Component"

\* f"{component_name.title().replace('-', '')}Model"
ComponentClassName(component_name) == <<TitleJoined(component_name), "Model">>
\* f"{app_id}/components/{sub_folder}/{component_name}"
ResourceType(app_id, sub_folder, component_name) ==
    <<app_id, "components", sub_folder, component_name>>

\* s with every token replaced by the tokens Piece gives for it.
Expand(s, Piece(_)) ==
    LET f[i \in 0..Len(s)] == IF i = 0 THEN <<>> ELSE f[i - 1] \o Piece(s[i])
    IN f[Len(s)]
Has(s, Test(_)) == \E i \in 1..Len(s) : Test(s[i])
First(s, Test(_)) == CHOOSE i \in 1..Len(s) :
                         Test(s[i]) /\ \A h \in 1..(i - 1) : ~Test(s[h])

\* _generate_fallback_content: the dialog has no branch and gets "".
FallbackContent(file_type, component_name, package_name, app_id, sub_folder) ==
    LET resource_type == ResourceType(app_id, sub_folder, component_name)
    IN CASE file_type = "htl" ->
              <<Open("div", <<package_name, "core", "models">>
                               \o ComponentClassName(component_name),
                     <<"class", component_name>>),
                Text("<h2 data-sly-test=${model.title}>${model.title}</h2>"),
                Text("<p data-sly-test=${model.description}>${model.description}</p>"),
                Close("div")>>
         [] file_type = "slingModel" ->
              <<Pkg(<<package_name, "core", "models">>),
                Imp("import org.apache.sling.api.resource.Resource;"),
                Imp("import org.apache.sling.models.annotations.Model;"),
                Imp("import org.apache.sling.models.annotations.Default;"),
                Imp("import org.apache.sling.models.annotations.Optional;"),
                Imp("import org.apache.sling.models.annotations.injectorspecific.ValueMapValue;"),
                Text(TitleSpaced(component_name)),
                ModelAnn(resource_type),
                Cls("class", ComponentClassName(component_name)),
                Code("@ValueMapValue"), Code("@Optional"), Code("@Default"),
                Code("private String title;"),
                Code("@ValueMapValue"), Code("@Optional"),
                Code("private String description;"),
                Code("getTitle"), Code("getDescription")>>
         [] file_type = "contentXml" ->
              <<Xml("cq:Component", TitleSpaced(component_name), resource_type)>>
         [] OTHER -> <<>>

\* _fix_htl_template.
FixHtlTemplate(htl_content, component_name, package_name, app_id) ==
    LET full_model_class == <<package_name, "core", "models">>
                                \o ComponentClassName(component_name)
        IsTag(t) == t.k = "open"
        HasUse(t) == t.k = "open" /\ t.use # <<>>
    IN IF ~Has(htl_content, HasUse)
       THEN IF Has(htl_content, IsTag)
            THEN [htl_content EXCEPT ![First(htl_content, IsTag)].use =
                                          full_model_class]
            ELSE <<Open("div", full_model_class, <<"class", component_name>>)>>
                 \o htl_content \o <<Close("div")>>
       ELSE [i \in 1..Len(htl_content) |->
               IF HasUse(htl_content[i])
               THEN [htl_content[i] EXCEPT !.use = full_model_class]
               ELSE htl_content[i]]

\* conditional_imports of _fix_deprecated_annotations, in the dict's order.
ConditionalImports ==
    <<<<"@Optional", "import org.apache.sling.models.annotations.Optional;">>,
      <<"@Default", "import org.apache.sling.models.annotations.Default;">>,
      <<"ArrayList", "import java.util.ArrayList;">>,
      <<"List<", "import java.util.List;">>,
      <<"@PostConstruct", "import javax.annotation.PostConstruct;">>,
      <<"Collections.", "import java.util.Collections;">>,
      <<"StringUtils.", "import org.apache.commons.lang3.StringUtils;">> >>

\* The usage patterns a token of Java code holds.
Uses(t) ==
    IF t.k # "code" THEN {}
    ELSE CASE t.v[1] = "@Optional" -> {"@Optional"}
           [] t.v[1] = "@Default" -> {"@Default"}
           [] t.v[1] = "new ArrayList<>()" -> {"ArrayList", "List<"}
           [] t.v[1] = "StringUtils.isNotBlank(title)" -> {"StringUtils."}
           [] OTHER -> {}

DeprecatedAnnotation ==
    Code("@ValueMapValue(injectionStrategy = InjectionStrategy.OPTIONAL)")
InjectionStrategyImport ==
    Imp("import org.apache.sling.models.annotations.injectorspecific.InjectionStrategy;")

\* _fix_deprecated_annotations.
FixDeprecatedAnnotations(java_content) ==
    LET Modernise(t) ==
            IF t = DeprecatedAnnotation
            THEN <<Code("@ValueMapValue"), Code("@Optional")>>
            ELSE IF t = InjectionStrategyImport THEN <<>> ELSE <<t>>
        java == Expand(java_content, Modernise)
        Missing_(x) == /\ Has(java, LAMBDA t : x[1] \in Uses(t))
                       /\ ~Has(java, LAMBDA t : t = Imp(x[2]))
        missing == SelectSeq(ConditionalImports, Missing_)
        missing_imports == [i \in 1..Len(missing) |-> Imp(missing[i][2])]
        AfterPackage(t) ==
            IF t.k = "package" THEN <<t>> \o missing_imports ELSE <<t>>
    IN Expand(java, AfterPackage)

\* _fix_sling_model_package.
FixSlingModelPackage(sling_model, component_name, package_name, app_id, sub_folder) ==
    LET component_class_name == ComponentClassName(component_name)
        proper_package == <<package_name, "core", "models">>
        resource_type == ResourceType(app_id, sub_folder, component_name)
        IsPackage(t) == t.k = "package"
        IsModel(t) == t.k = "@Model"
        IsClass(t) == t.k \in {"class", "interface"}
        packaged ==
            IF Has(sling_model, IsPackage)
            THEN [i \in 1..Len(sling_model) |->
                    IF IsPackage(sling_model[i]) THEN Pkg(proper_package)
                    ELSE sling_model[i]]
            ELSE <<Pkg(proper_package)>> \o sling_model
        fixed == FixDeprecatedAnnotations(packaged)
        typed ==
            IF Has(fixed, IsModel)
            THEN IF ~Has(fixed, LAMBDA t : IsModel(t) /\ t.v # <<>>)
                 THEN [i \in 1..Len(fixed) |->
                         IF IsModel(fixed[i]) THEN ModelAnn(resource_type)
                         ELSE fixed[i]]
                 ELSE [i \in 1..Len(fixed) |->
                         IF IsModel(fixed[i]) /\ fixed[i].v # <<>>
                         THEN ModelAnn(resource_type) ELSE fixed[i]]
            ELSE fixed
    IN IF ~Has(typed, LAMBDA t : IsClass(t) /\ t.v = component_class_name)
       THEN [i \in 1..Len(typed) |->
               IF IsClass(typed[i]) THEN Cls(typed[i].k, component_class_name)
               ELSE typed[i]]
       ELSE typed

\* _generate_project_structure (the paths of the four required artifacts).
ProjectStructure(component_name, package_name, app_id, sub_folder) ==
    LET dir == <<"ui.apps/src/main/content/jcr_root/apps", app_id,
                 "components", sub_folder, component_name>>
    IN [htlPath |-> dir \o <<component_name, ".html">>,
        slingModelPath |-> <<"core/src/main/java", package_name, "core/models">>
                              \o ComponentClassName(component_name)
                              \o <<".java">>,
        dialogPath |-> dir \o <<"_cq_dialog/.content.xml">>,
        contentXmlPath |-> dir \o <<".content.xml">>]

\* A value of the parsed generation output: a key the output lacks, null, or
\* a string.
Lacking == [st |-> "absent", text |-> <<>>]
Null == [st |-> "null", text |-> <<>>]
Str(text) == [st |-> "str", text |-> text]
\* generated.get(file) is truthy.
Truthy(value) == value.st = "str" /\ value.text # <<>>
\* dict.get(key, default)
GetOr(value, default) == IF value = Absent THEN default ELSE value

required_files == <<"slingModel", "htl", "dialog", "contentXml">>

\* _post_process_generation.
PostProcessGeneration(generated, requirements, options) ==
    LET component_name == GetOr(requirements.name, "component")
        app_id == GetOr(options.app_id, DEFAULT_APP_ID)
        package_name == GetOr(options.package_name, DEFAULT_PACKAGE_NAME)
        sub_folder == GetOr(options.sub_folder, "wkndai")
        filled ==
            [file \in Range(required_files) |->
                IF ~Truthy(generated[file])
                THEN FallbackContent(file, component_name, package_name,
                                     app_id, sub_folder)
                ELSE generated[file].text]
    IN [slingModel |-> FixSlingModelPackage(filled.slingModel, component_name,
                                            package_name, app_id, sub_folder),
        htl |-> FixHtlTemplate(filled.htl, component_name, package_name, app_id),
        dialog |-> filled.dialog,
        contentXml |-> filled.contentXml,
        projectStructure |-> ProjectStructure(component_name, package_name,
                                              app_id, sub_folder)]

\* The inputs of process.
Requirements == [name : {Absent, "hero", "hero-banner"}]
Options == [app_id : {Absent, "site"}, package_name : {Absent, "com.site"},
            sub_folder : {Absent, "custom"}]
NoInput == [requirements |-> [name |-> Absent],
            options |-> [app_id |-> Absent, package_name |-> Absent,
                         sub_folder |-> Absent]]

\* The texts the agent returns for each artifact.
GeneratedSlingModels ==
    {<<Pkg(<<"com", "example">>), ModelAnn(<<>>), Cls("class", <<"Foo">>),
       DeprecatedAnnotation, Code("private String title;")>>,
     <<InjectionStrategyImport, ModelAnn(<<"x", "components", "foo">>),
       Cls("interface", <<"Hero", "Model">>),
       Code("StringUtils.isNotBlank(title)")>>}
GeneratedHtls ==
    {<<Open("div", <<>>, <<"class", "x">>), Text("${model.title}"), Close("div")>>,
     <<Text("${model.title}")>>,
     <<Open("sly", <<"com", "example", "Foo">>, <<>>), Close("sly")>>}
GeneratedDialogs == {<<Xml("nt:unstructured", "Properties", <<>>)>>}
GeneratedContentXmls == {<<Xml("cq:Component", "Foo", <<"x">>)>>}
Values(texts) == {Lacking, Null, Str(<<>>)} \cup {Str(text) : text \in texts}
Generations ==
    [slingModel : Values(GeneratedSlingModels), htl : Values(GeneratedHtls),
     dialog : Values(GeneratedDialogs),
     contentXml : Values(GeneratedContentXmls)]
NoGeneration ==
    [slingModel |-> <<>>, htl |-> <<>>, dialog |-> <<>>, contentXml |-> <<>>,
     projectStructure |-> [htlPath |-> <<>>, slingModelPath |-> <<>>,
                           dialogPath |-> <<>>, contentXmlPath |-> <<>>]]

\* process is called (lines 181-195): the prompt is built and the agent call
\* awaited.
GeneratorProcess ==
    /\ gpc = "idle"
    /\ \E requirements \in Requirements, options \in Options :
         gin' = [requirements |-> requirements, options |-> options]
    /\ gpc' = "call"
    /\ UNCHANGED <<graw, gout>>
    /\ UNCHANGED <<coreVars, svcVars, syncVars, rlVars>>

\* The agent call has raised, or has returned a text that
\* parse_json_response rejects, or one it parses and _post_process_generation
\* completes (lines 195-202).
GeneratorCallDone ==
    /\ gpc = "call"
    /\ \/ /\ gpc' = "failed"
          /\ UNCHANGED <<graw, gout>>
       \/ \E generated \in Generations :
            /\ graw' = generated
            /\ gout' = PostProcessGeneration(generated, gin.requirements,
                                             gin.options)
            /\ gpc' = "done"
    /\ UNCHANGED gin
    /\ UNCHANGED <<coreVars, svcVars, syncVars, rlVars>>

----------------------------------------------------------------------------
(* Component service: backend/app/services/component_service.py            *)
(* call_openai and call_gemini are coroutine functions that call the        *)
(* synchronous client without awaiting anything, so a coroutine of an agent *)
(* has no suspension point: once the event loop steps it, the call is made  *)
(* and answered before any other coroutine runs.                            *)

\* What an agent's coroutine ends with: the parsed data with or without the
\* key its caller needs, an exception of the client call, or the ValueError
\* of extract_and_format_response.
AgentOutcomes == {"ok", "lacking", "timeout", "rate_limit", "parse_error"}
Raised(outcome) == outcome \notin {"ok", "lacking"}

SvcEvent(agent, ev, out) == [agent |-> agent, ev |-> ev, out |-> out]
\* The coroutine of an agent runs from its first line to its end.
RunAgent(agent, outcome) ==
    <<SvcEvent(agent, "start", ""), SvcEvent(agent, "end", outcome)>>

\* The tasks asyncio.gather makes of its arguments, in the order it
\* schedules them.
GatherTasks == <<"agent2", "agent3">>

\* generate_aem_component up to the await of asyncio.gather (lines 271-303).
GenerateAemComponent ==
    /\ mpc = "idle"
    /\ \E image \in BOOLEAN, oi \in AgentOutcomes \ {"lacking"},
          o1 \in AgentOutcomes :
         LET img == IF image THEN RunAgent("image", oi) ELSE <<>>
         IN IF image /\ Raised(oi)
            THEN /\ strace' = img
                 /\ sres' = oi
                 /\ mpc' = "raised"
                 /\ UNCHANGED tpc
            ELSE /\ strace' = img \o RunAgent("agent1", o1)
                 /\ IF Raised(o1)
                    THEN sres' = o1 /\ mpc' = "raised" /\ UNCHANGED tpc
                    ELSE IF o1 = "lacking"
                    THEN /\ sres' = "Agent 1 failed to generate required outputs"
                         /\ mpc' = "raised"
                         /\ UNCHANGED tpc
                    ELSE /\ mpc' = "gather"
                         /\ tpc' = [t \in Range(GatherTasks) |-> "ready"]
                         /\ UNCHANGED sres
    /\ UNCHANGED <<coreVars, genVars, syncVars, rlVars>>

\* The event loop steps the task of agent2_htl_generator (lines 225-239).
Agent2HtlGenerator ==
    /\ mpc = "gather"
    /\ tpc.agent2 = "ready"
    /\ \E o \in AgentOutcomes :
         /\ strace' = strace \o RunAgent("agent2", o)
         /\ tpc' = [tpc EXCEPT !.agent2 = o]
    /\ UNCHANGED <<mpc, sres>>
    /\ UNCHANGED <<coreVars, genVars, syncVars, rlVars>>

\* The event loop steps the task of agent3_dialog_generator (lines 241-254),
\* which stands behind the task of agent 2 in the loop's queue.
Agent3DialogGenerator ==
    /\ mpc = "gather"
    /\ tpc.agent3 = "ready"
    /\ tpc.agent2 # "ready"
    /\ \E o \in AgentOutcomes :
         /\ strace' = strace \o RunAgent("agent3", o)
         /\ tpc' = [tpc EXCEPT !.agent3 = o]
    /\ UNCHANGED <<mpc, sres>>
    /\ UNCHANGED <<coreVars, genVars, syncVars, rlVars>>

\* asyncio.gather has answered: generate_aem_component runs to its end
\* (lines 303-334). gather raises the exception of the task that failed
\* first; its callbacks run after the steps of both tasks.
GatherDone ==
    /\ mpc = "gather"
    /\ \A i \in 1..Len(GatherTasks) : tpc[GatherTasks[i]] # "ready"
    /\ IF \E i \in 1..Len(GatherTasks) : Raised(tpc[GatherTasks[i]])
       THEN /\ sres' = tpc[GatherTasks[First(GatherTasks,
                                             LAMBDA t : Raised(tpc[t]))]]
            /\ mpc' = "raised"
            /\ UNCHANGED strace
       ELSE IF tpc.agent2 = "lacking" \/ tpc.agent3 = "lacking"
       THEN /\ sres' = "Agent 2 or 3 failed to generate required outputs"
            /\ mpc' = "raised"
            /\ UNCHANGED strace
       ELSE \E o4 \in AgentOutcomes, content_xml \in BOOLEAN :
              /\ strace' = strace \o RunAgent("agent4", o4)
              /\ IF Raised(o4)
                 THEN sres' = o4 /\ mpc' = "raised"
                 ELSE IF o4 = "lacking"
                 THEN /\ sres' = "Agent 4 failed to generate required outputs"
                      /\ mpc' = "raised"
                 ELSE IF ~content_xml
                 THEN sres' = "KeyError: '.content.xml'" /\ mpc' = "raised"
                 ELSE sres' = "final_result" /\ mpc' = "done"
    /\ UNCHANGED tpc
    /\ UNCHANGED <<coreVars, genVars, syncVars, rlVars>>

----------------------------------------------------------------------------
(* Synchronous generation: generate_component_sync of                       *)
(* backend/app/routers/component_routes.py                                  *)

\* max_attempts of the polling loop (60 in the code).
MaxPolls == 3
\* The job the request submits.
SyncJob == 1

NoAnswer == [http |-> 0, detail |-> ""]
\* raise HTTPException(code, detail) inside the try block: the handler
\* 'except Exception' catches it and raises HTTPException(500, str(e)).
Answer(code, detail) == [http |-> 500, detail |-> detail]
\* return ComponentResponse(**result)
Response == [http |-> 200, detail |-> "ComponentResponse"]

\* TaskQueue.get_result: None when the key holds nothing.
get_result(id) == resultStore[ResultKey(id)]

\* The request arrives: the image, if any, is uploaded, request_data is
\* built and generate_component is awaited (lines 228-251).
GenerateComponentSync ==
    /\ ppc = "idle"
    /\ spc[SyncJob] = "idle"
    /\ \E upload \in {"none", "stored", "invalid", "failed"} :
         CASE upload = "invalid" ->
                /\ panswer' = Answer(400, "Image validation error")
                /\ ppc' = "answered"
                /\ UNCHANGED spc
           [] upload = "failed" ->
                /\ panswer' = Answer(500, "Image upload failed")
                /\ ppc' = "answered"
                /\ UNCHANGED spc
           [] OTHER ->
                /\ spc' = [spc EXCEPT ![SyncJob] = "enq_status"]
                /\ ppc' = "submit"
                /\ UNCHANGED panswer
    /\ UNCHANGED <<pc, req, statusStore, resultStore, err, writes, calls>>
    /\ UNCHANGED <<polls, pobs>>
    /\ UNCHANGED <<lookup, retryVars, cacheVars, valVars, genVars, svcVars,
                   rlVars>>

\* generate_component has returned the id (the loop's first sleep is
\* awaited) or raised.
SubmitDone ==
    /\ ppc = "submit"
    /\ spc[SyncJob] \in {"returned", "rejected"}
    /\ IF spc[SyncJob] = "returned"
       THEN ppc' = "sleep" /\ UNCHANGED panswer
       ELSE ppc' = "answered" /\ panswer' = Answer(500, "store_error")
    /\ UNCHANGED <<polls, pobs>>
    /\ UNCHANGED <<coreVars, genVars, svcVars, rlVars>>

\* asyncio.sleep(5) has returned: get_result is awaited.
PollSleepDone ==
    /\ ppc = "sleep"
    /\ ppc' = "get"
    /\ UNCHANGED <<polls, pobs, panswer>>
    /\ UNCHANGED <<coreVars, genVars, svcVars, rlVars>>

\* get_result has returned or raised: the loop answers, or sleeps again, or
\* ends after max_attempts polls (lines 254-264).
GetResultDone ==
    /\ ppc = "get"
    /\ \E readOk \in BOOLEAN, valid \in BOOLEAN :
         LET result == get_result(SyncJob)
         IN IF ~readOk
            THEN /\ ppc' = "answered"
                 /\ panswer' = Answer(500, "store_error")
                 /\ UNCHANGED <<polls, pobs>>
            ELSE /\ polls' = polls + 1
                 /\ pobs' = Append(pobs, [status |-> statusStore[StatusKey(SyncJob)].status,
                                          result |-> result])
                 /\ IF result # NoResult /\ result.status = "completed"
                    THEN /\ ppc' = "answered"
                         /\ panswer' = IF valid THEN Response
                                       ELSE Answer(500, "validation error")
                    ELSE IF result # NoResult /\ result.status = "failed"
                    THEN /\ ppc' = "answered"
                         /\ panswer' = Answer(500, "Generation failed")
                    ELSE IF polls + 1 = MaxPolls
                    THEN /\ ppc' = "answered"
                         /\ panswer' = Answer(408, "Request timeout")
                    ELSE /\ ppc' = "sleep"
                         /\ UNCHANGED panswer
    /\ UNCHANGED <<coreVars, genVars, svcVars, rlVars>>

----------------------------------------------------------------------------
(* Rate limiting: backend/app/middleware/rate_limit.py                      *)

\* Largest calls and period the model configures, and the last reading of
\* the clock.
MaxCalls == 2
MaxPeriod == 2
MaxTime == 2
\* request.client.host of the clients.
ClientIps == {"10.0.0.1", "10.0.0.2"}

\* Lines 19-22: the timestamps younger than period.
CleanOld(timestamps, t, period) ==
    SelectSeq(timestamps, LAMBDA timestamp : timestamp > t - period)

\* Lines 25-29: a request over the limit raises before anything is
\* recorded, any other is recorded.
AfterCheckRecording(timestamps, t, limited) == Append(timestamps, t)
AfterCheck(timestamps, t, limited) ==
    IF limited THEN timestamps ELSE Append(timestamps, t)

\* __init__: the middleware is constructed with calls and period.
RateLimitMiddlewareInit ==
    /\ rlcfg.calls = 0
    /\ \E calls_ \in 1..MaxCalls, period \in 1..MaxPeriod :
         rlcfg' = [calls |-> calls_, period |-> period]
    /\ UNCHANGED <<now, clients, passed, lastRejected>>
    /\ UNCHANGED <<coreVars, genVars, svcVars, syncVars>>

\* time.time() advances.
ClockTick ==
    /\ rlcfg.calls > 0
    /\ now < MaxTime
    /\ now' = now + 1
    /\ UNCHANGED <<rlcfg, clients, passed, lastRejected>>
    /\ UNCHANGED <<coreVars, genVars, svcVars, syncVars>>

\* dispatch up to its await of call_next (the request is passed downstream)
\* or to its raise of HTTPException(429).
Dispatch(client_ip) ==
    /\ rlcfg.calls > 0
    /\ LET cleaned == CleanOld(clients[client_ip], now, rlcfg.period)
           limited == Len(cleaned) >= rlcfg.calls
       IN /\ clients' = [clients EXCEPT ![client_ip] =
                            AfterCheck(cleaned, now, limited)]
          /\ passed' = [passed EXCEPT ![client_ip] =
                          IF limited THEN @ ELSE Append(@, now)]
          /\ lastRejected' = [lastRejected EXCEPT ![client_ip] =
                                IF limited THEN now ELSE @]
    /\ UNCHANGED <<rlcfg, now>>
    /\ UNCHANGED <<coreVars, genVars, svcVars, syncVars>>

----------------------------------------------------------------------------

Init ==
    /\ spc = [j \in JobIds |-> "idle"]
    /\ pc = [j \in JobIds |-> "none"]
    /\ req = [j \in JobIds |-> NoReq]
    /\ statusStore = [k \in JobIds |-> NoRec]
    /\ resultStore = [k \in JobIds |-> NoResult]
    /\ err = [j \in JobIds |-> ""]
    /\ writes = [j \in JobIds |-> <<>>]
    /\ calls = [j \in JobIds |-> <<>>]
    /\ lookup = [id |-> 0, outcome |-> "none", http |-> 0, held |-> FALSE,
                 readOk |-> TRUE]
    /\ rpc = "idle"
    /\ rcfg = [max_attempts |-> 0, delay |-> 0, backoff |-> 0]
    /\ attempt = 0
    /\ current_delay = 0
    /\ rtrace = <<>>
    /\ rout = NoOutcome
    /\ rerr = ""
    /\ cenabled = "unset"
    /\ cstore = [k \in CacheKeys |-> Nil]
    /\ cexpired = {}
    /\ xpc = [e \in Execs |-> "idle"]
    /\ xkey = [e \in Execs |-> NoKey]
    /\ xres = [e \in Execs |-> "none"]
    /\ xtrace = [e \in Execs |-> <<>>]
    /\ extCalls = [k \in CacheKeys |-> 0]
    /\ xfields = [e \in Execs |-> NoFields]
    /\ xfrom = [e \in Execs |-> NoFields]
    /\ cfrom = [k \in CacheKeys |-> NoFields]
    /\ vpc = "idle"
    /\ vfiles = NoFiles
    /\ vauto = NoReport
    /\ vllm = EmptyDict
    /\ vreport = NoReport
    /\ verr = ""
    /\ gpc = "idle"
    /\ gin = NoInput
    /\ graw = [file \in Range(required_files) |-> Lacking]
    /\ gout = NoGeneration
    /\ mpc = "idle"
    /\ tpc = [t \in Range(GatherTasks) |-> "none"]
    /\ strace = <<>>
    /\ sres = ""
    /\ ppc = "idle"
    /\ polls = 0
    /\ pobs = <<>>
    /\ panswer = NoAnswer
    /\ rlcfg = [calls |-> 0, period |-> 0]
    /\ now = 0
    /\ clients = [c \in ClientIps |-> <<>>]
    /\ passed = [c \in ClientIps |-> <<>>]
    /\ lastRejected = [c \in ClientIps |-> -1]

\* Jobs submitted and run interleaved.
Next ==
    \E j \in JobIds :
        \/ GenerateComponent(j)
        \/ EnqueueStatusDone(j)
        \/ EnqueuePushDone(j)
        \/ ProcessStart(j)
        \/ StatusWriteDone(j)
        \/ AgentDone(j)
        \/ SaveResultDone(j)
        \/ CompleteWriteDone(j)
        \/ FailedWriteDone(j)

Spec == Init /\ [][Next]_vars

\* The event loop resumes every coroutine whose await has completed.
TaskStep(j) ==
    \/ EnqueueStatusDone(j)
    \/ EnqueuePushDone(j)
    \/ ProcessStart(j)
    \/ StatusWriteDone(j)
    \/ AgentDone(j)
    \/ SaveResultDone(j)
    \/ CompleteWriteDone(j)
    \/ FailedWriteDone(j)

FairSpec == Spec /\ \A j \in JobIds : WF_vars(TaskStep(j))

\* One job runs while clients ask for the status of any id.
PollNext ==
    \/ GenerateComponent(1)
    \/ EnqueueStatusDone(1)
    \/ EnqueuePushDone(1)
    \/ ProcessStart(1)
    \/ StatusWriteDone(1)
    \/ AgentDone(1)
    \/ SaveResultDone(1)
    \/ CompleteWriteDone(1)
    \/ FailedWriteDone(1)
    \/ \E id \in JobIds : GetStatus(id)

PollSpec == Init /\ [][PollNext]_vars

\* One call of a function decorated with retry_async.
RetryNext ==
    \/ RetryCall
    \/ RetryAttemptDone
    \/ RetrySleepDone

RetrySpec == Init /\ [][RetryNext]_vars

\* Executions of the memoizing stages, interleaved at their awaits, over one
\* cache.
CacheNext ==
    \/ CacheManagerInit
    \/ \E e \in Execs : AnalyzerProcess(e)
    \/ \E e \in Execs : AnalyzerGetDone(e)
    \/ \E e \in Execs : AnalyzerCallDone(e)
    \/ \E e \in Execs : AnalyzerSetDone(e)
    \/ \E k \in CacheKeys : CacheExpire(k)

CacheSpec == Init /\ [][CacheNext]_vars

\* One call of the validator's process.
ValNext ==
    \/ ValidatorProcess
    \/ LlmValidationDone

ValSpec == Init /\ [][ValNext]_vars

\* One call of the generator's process.
GenNext ==
    \/ GeneratorProcess
    \/ GeneratorCallDone

GenSpec == Init /\ [][GenNext]_vars

\* One call of generate_aem_component and the tasks it starts.
SvcNext ==
    \/ GenerateAemComponent
    \/ Agent2HtlGenerator
    \/ Agent3DialogGenerator
    \/ GatherDone

SvcSpec == Init /\ [][SvcNext]_vars

\* One generate-sync request and the job it submits.
SyncNext ==
    \/ GenerateComponentSync
    \/ SubmitDone
    \/ PollSleepDone
    \/ GetResultDone
    \/ EnqueueStatusDone(SyncJob)
    \/ EnqueuePushDone(SyncJob)
    \/ ProcessStart(SyncJob)
    \/ StatusWriteDone(SyncJob)
    \/ AgentDone(SyncJob)
    \/ SaveResultDone(SyncJob)
    \/ CompleteWriteDone(SyncJob)
    \/ FailedWriteDone(SyncJob)

SyncSpec == Init /\ [][SyncNext]_vars

\* Requests of the clients arrive at the middleware as time passes.
RateNext ==
    \/ RateLimitMiddlewareInit
    \/ ClockTick
    \/ \E client_ip \in ClientIps : Dispatch(client_ip)

RateSpec == Init /\ [][RateNext]_vars

----------------------------------------------------------------------------
(* Properties *)

StatusOf(j) == statusStore[StatusKey(j)]
ResultOf(j) == resultStore[ResultKey(j)]
Terminal(rec) == rec.status \in {"completed", "failed"}
Last(q) == q[Len(q)]
Front(q) == SubSeq(q, 1, Len(q) - 1)
IsPrefix(p, q) == Len(p) <= Len(q) /\ \A i \in 1..Len(p) : p[i] = q[i]

\* C1: the progress values written to a job's status record are
\* non-decreasing over time; a completed record carries exactly 100 and a
\* failed record less than 100, and a job whose task has ended with a final
\* status write ends on one of the two.
C1_ProgressNonDecreasing ==
    \A j \in JobIds :
        LET w == writes[j] IN
        /\ \A a \in 1..Len(w), b \in 1..Len(w) :
             a < b => w[a].progress <= w[b].progress
        /\ \A a \in 1..Len(w) :
             /\ w[a].status = "completed" => w[a].progress = 100
             /\ w[a].status = "failed" => w[a].progress < 100
        /\ pc[j] \in {"done", "raised"} => Terminal(Last(w))

C3_ResultOnlyWhenCompleted ==
    \A j \in JobIds :
        ResultOf(j) # NoResult => StatusOf(j).status = "completed"

C5_EveryJobEndsTerminal ==
    \A j \in JobIds :
        (spc[j] = "returned") ~> Terminal(StatusOf(j))

\* C6: when generate_component has returned the id and the task it created
\* has not run yet, the stored status of the job is queued with progress 0,
\* it is the only status written so far, and no agent has been invoked.
C6_QueuedBeforeReturn ==
    \A j \in JobIds :
        spc[j] = "returned" =>
            /\ pc[j] # "none"
            /\ pc[j] = "start" =>
                 /\ StatusOf(j).status = "queued"
                 /\ StatusOf(j).progress = 0
                 /\ Len(writes[j]) = 1
                 /\ calls[j] = <<>>

C6_Witness ==
    \E j \in JobIds, k \in JobIds :
        /\ spc[j] = "returned" /\ pc[j] = "start"
        /\ pc[k] \in AgentPcs

\* C7: a status lookup answers not-found (404) exactly when the store was
\* read and holds no status record for the id; when the read fails the
\* answer is another error (500), whether or not the job exists.
C7_NotFoundIffAbsent ==
    lookup.outcome # "none" =>
        /\ lookup.outcome = "not_found" <=> (lookup.readOk /\ ~lookup.held)
        /\ lookup.http = 404 <=> lookup.outcome = "not_found"
        /\ ~lookup.readOk => lookup.outcome = "store_error" /\ lookup.http = 500
        /\ (lookup.readOk /\ lookup.held) => lookup.outcome = "ok"

C7_Witness ==
    /\ lookup.id = 1
    /\ lookup.held
    /\ ~lookup.readOk
    /\ lookup.outcome = "store_error"
    /\ StatusOf(1).status = "processing"

\* The status writes of a job that runs to completion, in order.
Schedule ==
    << [status |-> "queued", progress |-> 0],
       [status |-> "processing", progress |-> 10],
       [status |-> "processing", progress |-> 30],
       [status |-> "processing", progress |-> 50],
       [status |-> "processing", progress |-> 80],
       [status |-> "completed", progress |-> 100] >>

StatusProgress(q) ==
    [i \in 1..Len(q) |-> [status |-> q[i].status, progress |-> q[i].progress]]

\* The progress of the status write that announces an agent's stage.
Announced(a) ==
    CASE a = "req" -> 10 [] a = "img" -> 30 [] a = "gen" -> 50 [] a = "val" -> 80

\* The agents of a job in pipeline order, given what was read of the request.
ExpectedCalls(r) ==
    <<"req">> \o (IF r.image_url = "present" THEN <<"img">> ELSE <<>>)
              \o <<"gen">>
              \o (IF r.validate = "true" THEN <<"val">> ELSE <<>>)

\* Status writes of job j that have been issued and not answered.
InFlightWrites(j) ==
    (IF spc[j] = "enq_status" THEN 1 ELSE 0)
    + (IF pc[j] \in WritePcs \cup {"w100", "wfail"} THEN 1 ELSE 0)

\* C8: the status writes of a job follow the schedule queued/0, processing
\* 10, 30, 50, 80, completed/100 (cut short, by a failed record at most, when
\* the job fails); agents are invoked in pipeline order, each while the
\* latest status write is the one announcing its stage; and at most one
\* status write of a job is in flight.
C8_WritesFollowPipeline ==
    \A j \in JobIds :
        LET w == StatusProgress(writes[j])
            body == IF Len(w) > 0 /\ Last(w).status = "failed"
                    THEN Front(w) ELSE w
        IN
        /\ IsPrefix(body, Schedule)
        /\ IsPrefix(calls[j], ExpectedCalls(req[j]))
        /\ \A i \in 1..Len(calls[j]) :
             \E a \in 1..Len(w) : w[a].progress = Announced(calls[j][i])
        /\ pc[j] \in AgentPcs =>
             /\ Last(calls[j]) = pc[j]
             /\ Last(w) = [status |-> "processing",
                           progress |-> Announced(pc[j])]
        /\ InFlightWrites(j) <= 1

C8_Witness ==
    \E j \in JobIds :
        /\ pc[j] = "done"
        /\ StatusProgress(writes[j]) = Schedule
        /\ calls[j] = <<"req", "img", "gen", "val">>

\* A job whose pipeline is under way.
Running(k) == pc[k] \in {"start", "save", "w100"} \cup WritePcs \cup AgentPcs

\* C9: the steps of a failing job (the stage raising, the handler's status
\* write) leave the status record, the result record and the position of
\* every other job unchanged, and every other job under way can still take
\* its next step.
C9_FailureIsolated ==
    /\ [][\A j \in JobIds :
            (pc'[j] \in {"wfail", "raised", "crashed"} /\ pc'[j] # pc[j]) =>
                \A k \in JobIds \ {j} :
                    /\ StatusOf(k)' = StatusOf(k)
                    /\ ResultOf(k)' = ResultOf(k)
                    /\ pc'[k] = pc[k]
                    /\ writes'[k] = writes[k]
       ]_vars
    /\ [](\A k \in JobIds : Running(k) => ENABLED TaskStep(k))

C9_Witness ==
    \E j \in JobIds, k \in JobIds :
        /\ pc[j] = "raised"
        /\ StatusOf(j).status = "failed"
        /\ pc[k] = "done"
        /\ StatusOf(k).status = "completed"
        /\ ResultOf(k).status = "completed"

RECURSIVE Pow(_, _)
Pow(b, n) == IF n = 0 THEN 1 ELSE b * Pow(b, n - 1)

\* Calls and sleeps of a wrapper whose function fails on every attempt.
AllFailTrace(cfg) ==
    [i \in 1..(2 * cfg.max_attempts - 1) |->
        IF i % 2 = 1
        THEN [ev |-> "call", arg |-> (i + 1) \div 2]
        ELSE [ev |-> "sleep",
              arg |-> cfg.delay * Pow(cfg.backoff, (i \div 2) - 1)]]

\* C10: when the wrapped function has failed on every attempt (the wrapper
\* raises), it was called exactly max_attempts times with one sleep between
\* two consecutive calls, the k-th sleep lasting delay * backoff^(k-1), and
\* no sleep after the last call.
C10_AlwaysFailingAttempts ==
    rpc = "raised" =>
        /\ rcfg.max_attempts >= 1
        /\ rtrace = AllFailTrace(rcfg)

C10_Witness ==
    /\ rpc = "raised"
    /\ rcfg = [max_attempts |-> 3, delay |-> 1, backoff |-> 2]
    /\ rtrace = <<[ev |-> "call", arg |-> 1], [ev |-> "sleep", arg |-> 1],
                  [ev |-> "call", arg |-> 2], [ev |-> "sleep", arg |-> 2],
                  [ev |-> "call", arg |-> 3]>>

\* The attempts the wrapper has made: the calls of its trace.
Attempts == {i \in 1..Len(rtrace) : rtrace[i].ev = "call"}

\* C11: a wrapper that returns hands back the value of an attempt that
\* succeeded, which is the last event of its trace (no attempt follows it); a
\* wrapper that raises re-raises the error of the attempt numbered
\* max_attempts, its last; so a wrapper returns normally only after an
\* attempt that succeeded, whatever max_attempts is configured.
C11_ReturnsOnlyOnSuccess ==
    /\ rpc = "returned" =>
         /\ rout.kind = "value"
         /\ Attempts # {}
         /\ Last(rtrace) = [ev |-> "call", arg |-> rout.of]
         /\ rout.of = Cardinality(Attempts)
    /\ rpc = "raised" =>
         /\ rout = [kind |-> "error", of |-> rcfg.max_attempts]
         /\ Last(rtrace) = [ev |-> "call", arg |-> rcfg.max_attempts]

\* C12: an error that no retry can cure is not retried: when the wrapped
\* function has raised it, the wrapper raises it at once, after that single
\* attempt and without a sleep.
C12_NonTransientNotRetried ==
    rerr = "config_error" =>
        /\ rpc = "raised"
        /\ rtrace = <<[ev |-> "call", arg |-> 1]>>

\* The executions of key k that returned a result.
Returned(k) == {e \in Execs : xkey[e] = k /\ xpc[e] = "done"}
Finished(e) == xpc[e] \in {"done", "failed"}
CacheOps(e) == {i \in 1..Len(xtrace[e]) : xtrace[e][i].op \in {"get", "set"}}
Faulted(e) == \E i \in CacheOps(e) : xtrace[e][i].res = "fault"

\* C13: with the cache enabled, no cache operation failing and no entry
\* expiring, executions of one stage on one input that returned a result,
\* run in sequence or interleaved, made exactly one external agent call
\* between them.
C13_OneCallPerKey ==
    \A k \in CacheKeys :
        ( /\ cenabled = "on"
          /\ k \notin cexpired
          /\ Cardinality(Returned(k)) >= 2
          /\ \A e \in Execs : xkey[e] = k => Finished(e) /\ ~Faulted(e) )
        => extCalls[k] = 1

\* What a stage execution does on an empty cache: look up, call the agent,
\* and store and return the result unless the call or the parse raised.
MissRunOps(out) ==
    IF out \in AgentErrors THEN <<"get", "call">> ELSE <<"get", "call", "set">>
MissRunFinal(out) == IF out \in AgentErrors THEN "failed" ELSE "done"
OpsOf(e) == [i \in 1..Len(xtrace[e]) |-> xtrace[e][i].op]

\* The cache is unavailable to execution e: each of its cache operations
\* found the store failing.
Unavailable(e) ==
    /\ Len(xtrace[e]) > 0
    /\ \A i \in CacheOps(e) : xtrace[e][i].res = "fault"

\* Execution e found the cache empty and working.
EmptyCacheRun(e) ==
    /\ Len(xtrace[e]) > 0
    /\ xtrace[e][1].res = "miss"
    /\ \A i \in CacheOps(e) : xtrace[e][i].res # "fault"

\* Execution e ran as an execution on an empty cache runs for the agent
\* outcome it met.
RunsLikeMiss(e) ==
    /\ Len(xtrace[e]) >= 2
    /\ xtrace[e][2].op = "call"
    /\ OpsOf(e) = MissRunOps(xtrace[e][2].res)
    /\ xpc[e] = MissRunFinal(xtrace[e][2].res)
    /\ xres[e] = xtrace[e][2].res

\* C14: no failure of the cache's store reaches the caller of get or set
\* (get returns None, set returns), and a finished stage execution that
\* found the cache unavailable made the same steps and ended the same way as
\* one that found the cache empty: lookup, agent call, store, result
\* returned, or lookup, agent call, failure when the agent call or the parse
\* failed.
C14_CacheOutageIsMiss ==
    \A e \in Execs :
        /\ xres[e] # "cache_error"
        /\ Finished(e) /\ (Unavailable(e) \/ EmptyCacheRun(e)) => RunsLikeMiss(e)

\* An execution whose lookup and store both failed returned the agent's
\* result.
C14_Witness ==
    \E e \in Execs :
        /\ xpc[e] = "done"
        /\ Unavailable(e)
        /\ Len(xtrace[e]) = 3
        /\ xres[e] \in ParsedResults

\* The rubric has run and process waits for the secondary assessment.
RubricDone == vpc = "llm"
\* process has returned a report / a report merged with the secondary
\* assessment.
ReportReturned == vpc = "done"
MergedReturned == vpc = "done" /\ vllm # EmptyDict

\* C15: every report process returns, deterministic or merged, has its five
\* category scores and its overall score within 0..100, and the status PASS
\* exactly when the overall score is at least 70.
C15_ScoresWithinRange ==
    ReportReturned =>
        /\ \A key \in Categories : vreport.details[key] \in 0..100
        /\ vreport.score \in 0..100
        /\ vreport.validationStatus = "PASS" <=> vreport.score >= 70

\* C16: in every report process returns, merged ones included, the overall
\* score is the floor of the weighted sum (30, 25, 15, 15, 15 percent) of
\* the category scores of that same report.
C16_OverallIsWeightedSum ==
    ReportReturned => vreport.score = Weighted(vreport.details)

NoRepeats(q) == Cardinality(Range(q)) = Len(q)

\* C17: merging the two reports in either order gives the same overall
\* score, the same category scores, the same status and the same sets of
\* issues and of suggestions, and no merged list holds an entry twice.
C17_MergeCommutes ==
    MergedReturned =>
        LET ab == vreport
            ba == MergeValidations(vllm, AsDict(vauto))
        IN /\ ab.score = ba.score
           /\ ab.details = ba.details
           /\ ab.validationStatus = ba.validationStatus
           /\ Range(ab.issues) = Range(ba.issues)
           /\ Range(ab.suggestions) = Range(ba.suggestions)
           /\ Range(ab.issues) = Range(vauto.issues) \cup Range(vllm.issues.v)
           /\ NoRepeats(ab.issues) /\ NoRepeats(ba.issues)
           /\ NoRepeats(ab.suggestions) /\ NoRepeats(ba.suggestions)

\* A merge of two reports that differ in score and share an issue, one of
\* them listing it twice.
C17_Witness ==
    /\ MergedReturned
    /\ vauto.score # vllm.score.v
    /\ Range(vauto.issues) \cap Range(vllm.issues.v) # {}
    /\ ~NoRepeats(vllm.issues.v)

\* C18: whatever text the secondary assessment returns, process does not
\* fail on it, and the merged report takes 50 for every category score the
\* response lacks.
C18_MalformedResponseBackfilled ==
    /\ verr # "parse_error"
    /\ MergedReturned =>
         \A key \in Categories :
            vreport.details[key]
                = (vauto.details[key] + GetDetail(vllm, key, 50)) \div 2

\* The ways an eval call is written, and the issues the rubric raises for
\* one.
EvalCalls == {"eval(x)", "eval(x); eval(y)", "eval (x)"}
EvalIssues ==
    {Say("Security risk: Avoid eval() function"),
     Say("Security risk: avoid eval() function")}
Count(q, S) == Cardinality({i \in 1..Len(q) : q[i] \in S})

\* C19: for a bundle whose only defect is an eval call in the template,
\* occurring once or more, the rubric reports a security score exactly 25
\* below that of the bundle without the call, and exactly one issue for it.
C19_EvalCostsOnce ==
    LET without == AutomatedValidation([vfiles EXCEPT !.htl = @ \ EvalCalls])
    IN ( /\ RubricDone
         /\ vfiles.htl \cap EvalCalls # {}
         /\ without.issues = <<>> )
       => /\ vauto.details.security = without.details.security - 25
          /\ Count(vauto.issues, EvalIssues) = 1

\* The bundle lacks the dialog: the artifact is absent, empty or blank.
LacksDialog(files) == files.dialog \subseteq {Whitespace}
\* Dialogs that are present and hold no placeholder.
PlaceholderFreeDialogs ==
    {d \in {DialogFragments, {"fieldLabel=\"Title\""}, {"TODO"}} :
        \A i \in 1..Len(PlaceholderPatterns) : ~Contains(d, PlaceholderPatterns[i])}
NamesDialog(issues) ==
    \E i \in 1..Len(issues) :
        /\ issues[i].text = "Missing or empty required files:"
        /\ "dialog" \in Range(issues[i].names)

\* C20 as stated: for a bundle that lacks the dialog, the reported
\* completeness is exactly 25 below that of the same bundle with a
\* placeholder-free dialog, and an issue names dialog as missing.
C20_ReportedExactly25Lower ==
    (RubricDone /\ LacksDialog(vfiles)) =>
        /\ NamesDialog(vauto.issues)
        /\ \A d \in PlaceholderFreeDialogs :
            AutomatedValidation([vfiles EXCEPT !.dialog = d]).details.completeness
                = vauto.details.completeness + 25

\* C20 amended: for a bundle that lacks the dialog, the completeness before
\* the limit to 0..100 is exactly 25 below that of the same bundle with a
\* placeholder-free dialog; each reported completeness is its value limited
\* to 0..100, so the reported values differ by 25 at most, and by exactly 25
\* when neither is limited; and an issue names dialog as missing.
C20_RawExactly25Lower ==
    (RubricDone /\ LacksDialog(vfiles)) =>
        /\ NamesDialog(vauto.issues)
        /\ \A d \in PlaceholderFreeDialogs :
            LET with == [vfiles EXCEPT !.dialog = d]
                rawWith == RawScores(with).completeness
                rawWithout == RawScores(vfiles).completeness
                repWith == AutomatedValidation(with).details.completeness
                repWithout == vauto.details.completeness
            IN /\ rawWithout = rawWith - 25
               /\ repWith = Clamp(rawWith)
               /\ repWithout = Clamp(rawWithout)
               /\ repWith - repWithout \in 0..25
               /\ (rawWith <= 100 /\ rawWithout >= 0) => repWith - repWithout = 25

\* A bundle with a blank dialog and a complete Sling Model: 80 reported,
\* where the same bundle with a dialog reports 100 (105 before the limit).
C20_Witness ==
    /\ RubricDone
    /\ vfiles.dialog = {Whitespace}
    /\ RawScores(vfiles).completeness = 80
    /\ vauto.details.completeness = 80
    /\ RawScores([vfiles EXCEPT !.dialog = DialogFragments]).completeness = 105

\* C21: in the statuses the store accepted for a job, completed and failed
\* follow a processing status only, and queued stands first and nowhere
\* else.
C21_TerminalOnlyFromProcessing ==
    \A j \in JobIds :
        \A i \in 1..Len(writes[j]) :
            /\ Terminal(writes[j][i]) =>
                 i > 1 /\ writes[j][i - 1].status = "processing"
            /\ writes[j][i].status = "queued" <=> i = 1

\* C22: whenever the stored status of a job is completed, its result
\* record is in the store, with the validation report, or null where
\* validation was skipped: a read of the result after a read of completed
\* finds it.
C22_CompletedHasResult ==
    \A j \in JobIds :
        StatusOf(j).status = "completed" =>
            /\ ResultOf(j) # NoResult
            /\ ResultOf(j) = ResultRecord(req[j])

\* A job is completed with validation skipped and its result saved.
C22_Witness ==
    \E j \in JobIds :
        /\ StatusOf(j).status = "completed"
        /\ req[j].validate = "false"
        /\ ResultOf(j).validation = "null"


\* C23: a job whose stage returned a text that is no JSON has invoked that
\* stage once, and when its task has ended its stored status is failed with
\* the parse error as the message.
C23_ParseErrorFailsJob ==
    \A j \in JobIds :
        err[j] = "parse_error" =>
            /\ \A a, b \in 1..Len(calls[j]) :
                 calls[j][a] = calls[j][b] => a = b
            /\ pc[j] \in {"raised", "crashed"} =>
                 StatusOf(j) = FailedRecord("parse_error")


\* The agents job j has invoked so far.
Invoked(j) == Range(calls[j])

\* C24: the image agent is invoked exactly for a request with an image
\* reference and the validator exactly for a request whose options.validate
\* is not false; a job that skipped a stage made no call of it and is
\* completed at progress 100, and the saved result has validation null
\* exactly when the validator was not invoked.
C24_StagesRunIffRequested ==
    \A j \in JobIds :
        /\ "img" \in Invoked(j) => req[j].image_url = "present"
        /\ "gen" \in Invoked(j) /\ req[j].image_url = "present" =>
             "img" \in Invoked(j)
        /\ "val" \in Invoked(j) => req[j].validate = "true"
        /\ pc[j] \in {"save", "w100", "done"} /\ req[j].validate = "true" =>
             "val" \in Invoked(j)
        /\ ResultOf(j) # NoResult =>
             (ResultOf(j).validation = "null" <=> "val" \notin Invoked(j))
        /\ StatusOf(j).status = "completed" =>
             /\ StatusOf(j).progress = 100
             /\ calls[j] = ExpectedCalls(req[j])

\* A job without image and with validation off is completed at 100 after the
\* requirement agent and the generator only, its result saved without report.
C24_Witness ==
    \E j \in JobIds :
        /\ StatusOf(j) = CompletedRecord
        /\ Invoked(j) = {"req", "gen"}
        /\ req[j] = [image_url |-> "absent", validate |-> "false"]
        /\ ResultOf(j).validation = "null"


\* The classes of security defect and the fragments that belong to each.
SecurityClasses ==
    [html |-> {"el.innerHTML = x"},
     eval |-> EvalCalls,
     secret |-> {"password = 'hunter2'"},
     query |-> {"\"SELECT * \" + t + \" FROM x\""}]
\* The issues the rubric raises for each class.
SecurityClassIssues ==
    [html |-> {Say("Potential XSS: Use textContent instead of innerHTML"),
               Say("Potential XSS vulnerability: avoid innerHTML")},
     eval |-> EvalIssues,
     secret |-> {Say("Hardcoded password detected")},
     query |-> {Say("Potential SQL injection: Use parameterized queries")}]
\* The classes of which the bundle holds a defect.
ClassesIn(files) ==
    {c \in DOMAIN SecurityClasses : AllContent(files) \cap SecurityClasses[c] # {}}
WithoutDefects(files) ==
    [files EXCEPT !.slingModel = @ \ Defects, !.htl = @ \ Defects,
                  !.dialog = @ \ Defects]

\* C25: each class of security defect in the bundle takes its own 20 to 25
\* points from the security score before flooring and raises an issue of its
\* own, so a bundle with two classes loses at least 40 points.
C25_EachClassDeductsItsOwn ==
    RubricDone =>
        LET classes == ClassesIn(vfiles)
            n == Cardinality(classes)
            loss == RawScores(WithoutDefects(vfiles)).security
                        - RawScores(vfiles).security
        IN /\ 20 * n <= loss /\ loss <= 25 * n
           /\ n >= 2 => loss >= 40
           /\ \A c \in classes : Count(vauto.issues, SecurityClassIssues[c]) >= 1


\* C26: in what the generator's process returns, each required artifact is
\* non-empty, whatever the generation output omitted or left empty, and an
\* artifact the output lacked holds the fallback of the component name, the
\* package name, the app id and the sub-folder (as post-processing fixes it).
C26_RequiredArtifactsNonEmpty ==
    gpc = "done" =>
        \A i \in 1..Len(required_files) : gout[required_files[i]] # <<>>


\* Where in the history the call of an agent starts and where it ends (0
\* when it has not).
StartOf(agent) ==
    IF \E i \in 1..Len(strace) : strace[i] = SvcEvent(agent, "start", "")
    THEN CHOOSE i \in 1..Len(strace) : strace[i] = SvcEvent(agent, "start", "")
    ELSE 0
EndOf(agent) ==
    IF \E i \in 1..Len(strace) : strace[i].agent = agent /\ strace[i].ev = "end"
    THEN CHOOSE i \in 1..Len(strace) :
             strace[i].agent = agent /\ strace[i].ev = "end"
    ELSE 0
EndedOk(agent) == EndOf(agent) > 0 /\ strace[EndOf(agent)].out = "ok"
Started(agent) == StartOf(agent) > 0

\* C27: the template call and the dialog call run concurrently (each is
\* started before the other has ended), the client-library call starts only
\* after both have ended successfully, and when either fails the
\* client-library call is never made and the generation raises the error of
\* the one that failed first.
C27_TemplateAndDialogConcurrent ==
    /\ \A a, b \in Range(GatherTasks) :
         EndOf(a) > 0 => Started(b) /\ StartOf(b) < EndOf(a)
    /\ Started("agent4") =>
         /\ EndedOk("agent2") /\ EndedOk("agent3")
         /\ StartOf("agent4") > EndOf("agent2")
         /\ StartOf("agent4") > EndOf("agent3")
    /\ \A a \in Range(GatherTasks) :
         (mpc = "raised" /\ EndOf(a) > 0 /\ Raised(strace[EndOf(a)].out)) =>
            /\ ~Started("agent4")
            /\ \E b \in Range(GatherTasks) :
                 /\ EndOf(b) > 0 /\ EndOf(b) <= EndOf(a)
                 /\ sres = strace[EndOf(b)].out


\* C28: a poll made when the job's stored status is failed ends the loop
\* with the answer that the generation failed, and the loop answers with its
\* timeout only when the job was still queued or processing at the last poll.
C28_FailureSeenBeforeTimeout ==
    /\ \A i \in 1..Len(pobs) :
         pobs[i].status = "failed" =>
            /\ i = Len(pobs)
            /\ ppc = "answered"
            /\ panswer.detail = "Generation failed"
    /\ panswer.detail = "Request timeout" =>
         Last(pobs).status \in {"queued", "processing"}


\* C29: the result an execution of the requirement stage returns was
\* computed from its own input: a cached result is returned only to a
\* request whose fields equal those of the request that computed it.
C29_ResultFromOwnInput ==
    \A e \in Execs :
        (xpc[e] = "done" /\ xkey[e][2] = "req_analysis") =>
            xfrom[e] = xfields[e]


\* The requests of a client passed on within the period that ends at t.
PassedWithin(client_ip, t) ==
    Cardinality({i \in 1..Len(passed[client_ip]) :
                    /\ passed[client_ip][i] > t - rlcfg.period
                    /\ passed[client_ip][i] <= t})
IsSuffix(p, q) ==
    /\ Len(p) <= Len(q)
    /\ \A i \in 1..Len(p) : p[i] = q[Len(q) - Len(p) + i]

\* C30: for each client at most calls requests are passed on within any
\* window of period seconds; the recorded timestamps are those of passed
\* requests only, so a rejected request does not prolong the block; and a
\* client is rejected only when its own passed requests fill the window.
C30_AtMostCallsPerWindow ==
    \A client_ip \in ClientIps :
        /\ \A t \in 0..MaxTime : PassedWithin(client_ip, t) <= rlcfg.calls
        /\ IsSuffix(clients[client_ip], passed[client_ip])
        /\ lastRejected[client_ip] >= 0 =>
             PassedWithin(client_ip, lastRejected[client_ip]) >= rlcfg.calls

\* A client was rejected while another was passed on at the same time, and
\* was passed on again once its window had emptied.
C30_Witness ==
    \E c, d \in ClientIps :
        /\ c # d
        /\ lastRejected[c] >= 0
        /\ Len(passed[c]) > 0 /\ Last(passed[c]) > lastRejected[c]
        /\ \E i \in 1..Len(passed[d]) : passed[d][i] = lastRejected[c]

=============================================================================
